---- MODULE Spec2Model ----
(***************************************************************************)
(* Key rotation and quota accounting of the Edge Functions                 *)
(*   generate-music        (supabase/functions/generate-music/index.ts)    *)
(*   check-generation      (MultiKeyRotationManager variant)               *)
(*   generate-video, check-video-status                                    *)
(* Times are milliseconds, as returned by Date.now(), counted from an      *)
(* epoch shortly before the process started.  Keys are identified by their *)
(* position in the apiKeys array (1 = first configured key).               *)
(* An invocation is one request/response cycle of one Edge Function; its   *)
(* steps are the segments of the handler between two awaits.               *)
(***************************************************************************)
EXTENDS Integers, Sequences, FiniteSets, TLC

\* ---------------------------------------------------------------- bounds
MaxKeys == 2
MaxPerHour == 2
MaxLimit == 2
MaxInv == 3
MaxTicks == 2
MaxFaults == 2
MaxFaultsConcurrent == 1
MaxActive == 2
MaxMonths == 2
MaxPoolKeys == 6
MaxDispatches == 2
StartTime == 5000
MaxPolls == 3
MaxSlots == 3

\* ------------------------------------------------------------- constants
Users == {"u1"}
Svc == {"gen", "chk"}
hourlyResetInterval == 60 * 60 * 1000
blockDuration(svc) == IF svc = "gen" THEN 5 * 60 * 1000 ELSE 3 * 60 * 1000
rotationDelay(svc) == IF svc = "gen" THEN 1000 ELSE 500
retryWait(svc) == IF svc = "gen" THEN 1000 ELSE 500
\* mutant: a cap above every pool
attemptCap_none(svc) == MaxPoolKeys + 1

attemptCap(svc) == IF svc = "gen" THEN 5 ELSE 3
TickSteps == {1000, 5 * 60 * 1000, 60 * 60 * 1000}
Outcomes == {"ok", "s429", "s4xx", "s5xx", "neterr"}
\* the video handlers treat every status that is not 2xx alike
VideoOutcomes == {"ok", "s5xx", "neterr"}
Bodies == {"task", "notask", "unreadable"}
TerminalStatuses == {"completed", "failed"}

VARIABLES now, month, ticks, faultsLeft, apiKeys, maxRequestsPerHour, keyStats, nextHourlyReset,
          user_subscriptions, video_subscriptions, video_generation_tasks,
          upstream, inv, reverts, keyManager, client, keyLoader, payments

vars == <<now, month, ticks, faultsLeft, apiKeys, maxRequestsPerHour, keyStats, nextHourlyReset,
          user_subscriptions, video_subscriptions, video_generation_tasks,
          upstream, inv, reverts, keyManager, client, keyLoader, payments>>

poolVars == <<apiKeys, maxRequestsPerHour, keyStats, nextHourlyReset>>
clockVars == <<now, month, ticks>>
envVars == <<now, month, ticks, faultsLeft>>
ledgerVars == <<user_subscriptions, video_subscriptions>>

Inv == 1..MaxInv

\* a timestamp: the calendar month it lies in (counted from the month the
\* process started in, which is month 1) and the reading of the millisecond
\* clock; ms = 0 stands for the first instant of the month
Date(m, ms) == [month |-> m, ms |-> ms]
nowDate == Date(month, now)
\* a >= b on timestamps
dateGE(a, b) == a.month > b.month \/ (a.month = b.month /\ a.ms >= b.ms)
\* mutant: the next reset date is the first of the month already running
firstOfNextMonth_thisMonth(d) == Date(d.month, 0)
\* new Date(now.getFullYear(), now.getMonth() + 1, 1)
firstOfNextMonth(d) == Date(d.month + 1, 0)
Min(a, b) == IF a <= b THEN a ELSE b

\* ------------------------------------------------------------- key pool
initialStats ==
  [usage |-> 0, lastUsed |-> 0, isBlocked |-> FALSE, blockUntil |-> 0,
   successCount |-> 0, failureCount |-> 0]

initializeKeyTracking(n) == [k \in 1..n |-> initialStats]

\* mutant: a block is cleared only after blockUntil has passed
unblockExpired_strict(stats, t) ==
  [k \in DOMAIN stats |->
     IF stats[k].isBlocked /\ t > stats[k].blockUntil
     THEN [stats[k] EXCEPT !.isBlocked = FALSE]
     ELSE stats[k]]

\* first loop of getNextAvailableKey: clear blocks whose period has expired
unblockExpired(stats, t) ==
  [k \in DOMAIN stats |->
     IF stats[k].isBlocked /\ t >= stats[k].blockUntil
     THEN [stats[k] EXCEPT !.isBlocked = FALSE]
     ELSE stats[k]]

availableKeys(svc, stats, t) ==
  {k \in DOMAIN stats :
     /\ ~stats[k].isBlocked
     /\ stats[k].usage < maxRequestsPerHour
     /\ (t - stats[k].lastUsed) >= rotationDelay(svc)}

\* mutant: the fallback list forgets the block flag
nonBlockedKeys_ignoreBlock(stats) ==
  {k \in DOMAIN stats : stats[k].usage < maxRequestsPerHour}

nonBlockedKeys(stats) ==
  {k \in DOMAIN stats :
     ~stats[k].isBlocked /\ stats[k].usage < maxRequestsPerHour}

\* the comparator handed to sort(): usage first, then (generate-music only,
\* and only for the first list) lastUsed
compareKeys(stats, a, b, byLastUsed) ==
  IF stats[a].usage # stats[b].usage
  THEN stats[a].usage - stats[b].usage
  ELSE IF byLastUsed THEN stats[a].lastUsed - stats[b].lastUsed ELSE 0

\* mutant: among equals the latest array position comes first
sortedFirst_lastOfEquals(S, stats, byLastUsed) ==
  CHOOSE k \in S :
    \A j \in S \ {k} :
      \/ compareKeys(stats, k, j, byLastUsed) < 0
      \/ compareKeys(stats, k, j, byLastUsed) = 0 /\ k > j

\* element [0] of the stably sorted list: minimal under the comparator, the
\* earliest array position among equals
sortedFirst(S, stats, byLastUsed) ==
  CHOOSE k \in S :
    \A j \in S \ {k} :
      \/ compareKeys(stats, k, j, byLastUsed) < 0
      \/ compareKeys(stats, k, j, byLastUsed) = 0 /\ k < j

\* selection on the stats left by unblockExpired; 0 stands for null
getNextAvailableKey(svc, stats, t) ==
  LET av == availableKeys(svc, stats, t)
      nb == nonBlockedKeys(stats)
  IN IF av # {} THEN sortedFirst(av, stats, svc = "gen")
     ELSE IF nb # {} THEN sortedFirst(nb, stats, FALSE)
     ELSE 0

\* mutant: the update does not stamp the time of use
updateKeyStats_noStamp(svc, stats, key, success, t) ==
  LET s1 == [stats[key] EXCEPT !.usage = @ + 1]
      s2 == IF success
            THEN [s1 EXCEPT !.successCount = @ + 1]
            ELSE [s1 EXCEPT !.failureCount = @ + 1, !.isBlocked = TRUE,
                            !.blockUntil = t + blockDuration(svc)]
      s3 == IF s2.usage >= maxRequestsPerHour
            THEN [s2 EXCEPT !.isBlocked = TRUE,
                            !.blockUntil = t + hourlyResetInterval]
            ELSE s2
  IN [stats EXCEPT ![key] = s3]

updateKeyStats(svc, stats, key, success, t) ==
  LET s1 == [stats[key] EXCEPT !.usage = @ + 1, !.lastUsed = t]
      s2 == IF success
            THEN [s1 EXCEPT !.successCount = @ + 1]
            ELSE [s1 EXCEPT !.failureCount = @ + 1, !.isBlocked = TRUE,
                            !.blockUntil = t + blockDuration(svc)]
      s3 == IF s2.usage >= maxRequestsPerHour
            THEN [s2 EXCEPT !.isBlocked = TRUE,
                            !.blockUntil = t + hourlyResetInterval]
            ELSE s2
  IN [stats EXCEPT ![key] = s3]

maxAttempts(svc) == Min(apiKeys, attemptCap(svc))

\* ------------------------------------------------- makeRequestWithRotation
\* The results below are records [pc, stats, attempt, key, lastError, wakeAt]
\* pc = "fetch"    : an upstream call with key `key` is in flight
\* pc = "wait"     : the catch block sleeps until wakeAt
\* pc = "returned" : the dispatch returned the response
\* pc = "threw"    : the dispatch raised lastError

\* head of the for loop with the given attempt number
loopTop(svc, stats, attempt, lastError) ==
  IF attempt >= maxAttempts(svc)
  THEN [pc |-> "threw", stats |-> stats, attempt |-> attempt, key |-> 0,
        lastError |-> IF lastError = "none" THEN "AllAttemptsFailed"
                      ELSE lastError,
        wakeAt |-> 0]
  ELSE LET s == unblockExpired(stats, now)
           k == getNextAvailableKey(svc, s, now)
       IN IF k = 0
          THEN [pc |-> "threw", stats |-> s, attempt |-> attempt, key |-> 0,
                lastError |-> "NoAvailableKeys", wakeAt |-> 0]
          ELSE [pc |-> "fetch", stats |-> s, attempt |-> attempt, key |-> k,
                lastError |-> lastError, wakeAt |-> 0]

\* the catch block: record the failure, then sleep unless it was the last
\* attempt
catchBlock(svc, stats, attempt, key, error) ==
  LET s == updateKeyStats(svc, stats, key, FALSE, now)
  IN IF attempt < maxAttempts(svc) - 1
     THEN [pc |-> "wait", stats |-> s, attempt |-> attempt, key |-> key,
           lastError |-> error, wakeAt |-> now + retryWait(svc)]
     ELSE loopTop(svc, s, attempt + 1, error)

\* mutant: every answer that arrives is returned, whatever its status
afterFetch_ignoreStatus(svc, stats, attempt, key, outcome, lastError) ==
  IF outcome = "neterr"
  THEN catchBlock(svc, stats, attempt, key, "neterr")
  ELSE [pc |-> "returned",
        stats |-> updateKeyStats(svc, stats, key, TRUE, now),
        attempt |-> attempt, key |-> key, lastError |-> lastError,
        wakeAt |-> 0]

\* mutant: a 429 or 5xx answer records the failure and ends the dispatch
afterFetch_noRetry(svc, stats, attempt, key, outcome, lastError) ==
  CASE outcome \in {"neterr", "s4xx"} ->
         catchBlock(svc, IF outcome = "s4xx"
                         THEN updateKeyStats(svc, stats, key, FALSE, now)
                         ELSE stats,
                    attempt, key, IF outcome = "s4xx" THEN "http4xx" ELSE "neterr")
    [] outcome \in {"s429", "s5xx"} ->
         [pc |-> "threw", stats |-> updateKeyStats(svc, stats, key, FALSE, now),
          attempt |-> attempt, key |-> 0, lastError |-> "AllAttemptsFailed",
          wakeAt |-> 0]
    [] OTHER ->
         [pc |-> "returned",
          stats |-> updateKeyStats(svc, stats, key, TRUE, now),
          attempt |-> attempt, key |-> key, lastError |-> lastError,
          wakeAt |-> 0]

\* the body of the try block once fetch has settled with `outcome`
afterFetch(svc, stats, attempt, key, outcome, lastError) ==
  CASE outcome = "neterr" ->
         catchBlock(svc, stats, attempt, key, "neterr")
    [] outcome = "s429" ->
         loopTop(svc, updateKeyStats(svc, stats, key, FALSE, now),
                 attempt + 1, lastError)
    [] outcome = "s5xx" ->
         IF svc = "gen"
         THEN loopTop(svc, updateKeyStats(svc, stats, key, FALSE, now),
                      attempt + 1, lastError)
         ELSE catchBlock(svc, updateKeyStats(svc, stats, key, FALSE, now),
                         attempt, key, "http5xx")
    [] outcome = "s4xx" ->
         catchBlock(svc, updateKeyStats(svc, stats, key, FALSE, now),
                    attempt, key, "http4xx")
    [] OTHER ->
         [pc |-> "returned",
          stats |-> updateKeyStats(svc, stats, key, TRUE, now),
          attempt |-> attempt, key |-> key, lastError |-> lastError,
          wakeAt |-> 0]

\* ------------------------------------------------------------ invocations
\* failures the environment injects into a run: an upstream call that does
\* not answer 2xx, an answer without task id, a failed store operation;
\* faultsLeft is how many more it may inject
faultsOf(outcome, body) ==
  IF outcome # "ok" THEN 1 ELSE IF body # "task" THEN 1 ELSE 0

inject(n) == n <= faultsLeft /\ faultsLeft' = faultsLeft - n

NoRow ==
  [exists |-> FALSE, monthly_limit |-> 0, current_usage |-> 0,
   reset_date |-> Date(0, 0)]
NoSnapshot == [monthly_limit |-> 0, current_usage |-> 0]
NoTask == [exists |-> FALSE, user_id |-> "none", status |-> "none"]

\* a row of the current period: its reset_date is the first of the month
\* after the one the process started in
subscriptionRow(limit, usage) ==
  [exists |-> TRUE, monthly_limit |-> limit, current_usage |-> usage,
   reset_date |-> Date(2, 0)]

\* the row an insert without reset_date creates: free plan, one music
\* generation, reset_date DEFAULT now(); no video generation until a pack is
\* bought, reset_date DEFAULT the first of the next month
\* mutant: the inserted row counts one generation as already used
defaultRow_spent(kind) == subscriptionRow(1, 1)

defaultRow(kind) ==
  IF kind = "genVideo"
  THEN [subscriptionRow(0, 0) EXCEPT !.reset_date = firstOfNextMonth(nowDate)]
  ELSE [subscriptionRow(1, 0) EXCEPT !.reset_date = nowDate]

idleInvocation ==
  [kind |-> "none", user |-> "none", task |-> 0, pc |-> "idle",
   sub |-> NoSnapshot, attempt |-> 0, key |-> 0, lastError |-> "none",
   wakeAt |-> 0, observed |-> "none", status |-> 0, error |-> "none",
   taskId |-> 0, charged |-> FALSE, calls |-> <<>>, asOf |-> Date(0, 0)]

GenKinds == {"genMusic", "genVideo"}
ChkKinds == {"chkMusic", "chkVideo"}
svcOf(kind) == IF kind = "genMusic" THEN "gen" ELSE "chk"
isMusic(kind) == kind \in {"genMusic", "chkMusic", "getUsage"}
ledgerRow(kind, u) ==
  IF isMusic(kind) THEN user_subscriptions[u] ELSE video_subscriptions[u]

\* return new Response(...): the invocation ends with an HTTP status; of its
\* locals the record keeps the quota it loaded and the calls it made
respond(rec, status, error) ==
  [rec EXCEPT !.pc = "done", !.status = status, !.error = error,
              !.attempt = 0, !.key = 0, !.lastError = "none", !.wakeAt = 0,
              !.observed = "none", !.asOf = Date(0, 0),
              !.sub = IF rec.kind \in GenKinds THEN rec.sub ELSE NoSnapshot]

\* what the handler does with a dispatch that has not returned: a raised
\* error lands in the catch (apiError) branch, which answers 500
applyDispatch(rec, r) ==
  IF r.pc = "threw"
  THEN respond(rec, 500, r.lastError)
  ELSE [rec EXCEPT !.pc = r.pc, !.attempt = r.attempt, !.key = r.key,
                   !.lastError = r.lastError, !.wakeAt = r.wakeAt]

\* invocations are numbered in the order of their arrival
Active == {j \in Inv : inv[j].pc \notin {"idle", "done"}}
MayStart(i) ==
  /\ inv[i].pc = "idle"
  /\ IF i = 1 THEN TRUE ELSE inv[i - 1].pc # "idle"
  /\ Cardinality(Active) < MaxActive
Quiet == Active = {}

\* writes one ledger row of the table the kind works on
writeLedger(kind, u, row) ==
  IF isMusic(kind)
  THEN /\ user_subscriptions' = [user_subscriptions EXCEPT ![u] = row]
       /\ UNCHANGED video_subscriptions
  ELSE /\ video_subscriptions' = [video_subscriptions EXCEPT ![u] = row]
       /\ UNCHANGED user_subscriptions

\* mutant: the gate never closes
quotaExceeded_never(row) == FALSE

\* mutant: the gate lets a request through when nothing is left
quotaExceeded_offByOne(row) == row.monthly_limit - row.current_usage < 0

\* "if (remaining <= 0)": no generation is left
quotaExceeded(row) == row.monthly_limit - row.current_usage <= 0

\* mutant: a per-user lock, the gate turns a request away while another
\* request of the same user and kind is between its gate and its answer
quotaGate_locked(i, rec, row) ==
  LET rec1 == [rec EXCEPT !.sub = [monthly_limit |-> row.monthly_limit,
                                   current_usage |-> row.current_usage]]
      busy == \E j \in Inv \ {i} :
                /\ inv[j].kind = rec.kind /\ inv[j].user = rec.user
                /\ inv[j].pc \in {"fetch", "wait", "insert_task", "commit"}
  IN IF busy \/ quotaExceeded(row)
     THEN /\ inv' = [inv EXCEPT ![i] = respond(rec1, 403, "QuotaExceeded")]
          /\ UNCHANGED keyStats
     ELSE IF rec.kind = "genMusic"
     THEN LET r == loopTop("gen", keyStats["gen"], 0, "none")
          IN /\ inv' = [inv EXCEPT ![i] = applyDispatch(rec1, r)]
             /\ keyStats' = [keyStats EXCEPT !["gen"] = r.stats]
     ELSE /\ inv' = [inv EXCEPT ![i] = [rec1 EXCEPT !.pc = "fetch"]]
          /\ UNCHANGED keyStats

\* the quota gate and what follows it up to the next await: the first loop
\* head of the dispatch (generate-music) or the single fetch (generate-video)
quotaGate(i, rec, row) ==
  LET rec1 == [rec EXCEPT !.sub = [monthly_limit |-> row.monthly_limit,
                                   current_usage |-> row.current_usage]]
  IN IF quotaExceeded(row)
     THEN /\ inv' = [inv EXCEPT ![i] = respond(rec1, 403, "QuotaExceeded")]
          /\ UNCHANGED keyStats
     ELSE IF rec.kind = "genMusic"
     THEN LET r == loopTop("gen", keyStats["gen"], 0, "none")
          IN /\ inv' = [inv EXCEPT ![i] = applyDispatch(rec1, r)]
             /\ keyStats' = [keyStats EXCEPT !["gen"] = r.stats]
     ELSE /\ inv' = [inv EXCEPT ![i] = [rec1 EXCEPT !.pc = "fetch"]]
          /\ UNCHANGED keyStats

\* a generation request arrives: load the subscription row
Gen_Request(i, u, kind, dbOk) ==
  /\ inject(IF dbOk THEN 0 ELSE 1)
  /\ MayStart(i)
  /\ LET rec == [idleInvocation EXCEPT !.kind = kind, !.user = u]
         row == ledgerRow(kind, u)
     IN IF ~dbOk
        THEN /\ inv' = [inv EXCEPT ![i] = respond(rec, 500, "SubscriptionCheck")]
             /\ UNCHANGED keyStats
        ELSE IF ~row.exists
        THEN /\ inv' = [inv EXCEPT ![i] = [rec EXCEPT !.pc = "create"]]
             /\ UNCHANGED keyStats
        ELSE quotaGate(i, rec, row)
  /\ UNCHANGED <<clockVars, apiKeys, maxRequestsPerHour, nextHourlyReset,
                 ledgerVars, video_generation_tasks, upstream, reverts, keyManager, client, keyLoader, payments>>

\* no row was found: insert the default one (user_id is UNIQUE, so the
\* insert fails when a row has appeared meanwhile), then pass the gate
Gen_Create(i, dbOk) ==
  /\ inject(IF dbOk THEN 0 ELSE 1)
  /\ inv[i].pc = "create"
  /\ LET kind == inv[i].kind
         u == inv[i].user
     IN IF ~dbOk \/ ledgerRow(kind, u).exists
        THEN /\ inv' = [inv EXCEPT ![i] = respond(@, 500, "SubscriptionCreate")]
             /\ UNCHANGED <<keyStats, ledgerVars>>
        ELSE /\ writeLedger(kind, u, defaultRow(kind))
             /\ quotaGate(i, inv[i], defaultRow(kind))
  /\ UNCHANGED <<clockVars, apiKeys, maxRequestsPerHour, nextHourlyReset,
                 video_generation_tasks, upstream, reverts, keyManager, client, keyLoader, payments>>

\* mutant: the answer is taken to carry a task id whatever it holds
hasTaskId_always(body) == TRUE

\* the check of the parsed answer: a task id must be present
hasTaskId(body) == body = "task"

logCall(rec, outcome) ==
  [rec EXCEPT !.calls = Append(@, [key |-> rec.key, outcome |-> outcome])]

\* generate-music: the upstream call of the current attempt settles
GenMusic_Settle(i, outcome, body) ==
  /\ inject(faultsOf(outcome, body))
  /\ inv[i].pc = "fetch" /\ inv[i].kind = "genMusic"
  /\ LET rec == logCall(inv[i], outcome)
         r == afterFetch("gen", keyStats["gen"], rec.attempt, rec.key,
                         outcome, rec.lastError)
     IN /\ keyStats' = [keyStats EXCEPT !["gen"] = r.stats]
        /\ IF r.pc # "returned"
           THEN /\ inv' = [inv EXCEPT ![i] = applyDispatch(rec, r)]
                /\ UNCHANGED upstream
           ELSE /\ upstream' = IF body = "task"
                                THEN [upstream EXCEPT ![i] = "created"]
                                ELSE upstream
                /\ inv' = [inv EXCEPT ![i] =
                     CASE body = "unreadable" -> respond(rec, 500, "unreadable")
                       [] ~hasTaskId(body) -> respond(rec, 400, "NoTaskId")
                       [] OTHER ->
                            [rec EXCEPT !.pc = "commit",
                                        !.taskId = IF body = "task" THEN i ELSE 0,
                                        !.attempt = 0, !.key = 0,
                                        !.lastError = "none"]]
  /\ UNCHANGED <<clockVars, apiKeys, maxRequestsPerHour, nextHourlyReset,
                 ledgerVars, video_generation_tasks, reverts, keyManager, client, keyLoader, payments>>

\* the sleep in the catch block is over: next attempt
Dispatch_Wake(i) ==
  /\ inv[i].pc = "wait"
  /\ now >= inv[i].wakeAt
  /\ LET svc == svcOf(inv[i].kind)
         r == loopTop(svc, keyStats[svc], inv[i].attempt + 1, inv[i].lastError)
     IN /\ keyStats' = [keyStats EXCEPT ![svc] = r.stats]
        /\ inv' = [inv EXCEPT ![i] = applyDispatch(@, r)]
  /\ UNCHANGED <<envVars, apiKeys, maxRequestsPerHour, nextHourlyReset,
                 ledgerVars, video_generation_tasks, upstream, reverts, keyManager, client, keyLoader, payments>>

\* the usage the commit writes: the value loaded before the gate, plus one
committedUsage(snapshot) == snapshot.current_usage + 1

\* mutant: a failed usage write is raised and the request answers 500
Gen_Commit_raises(i, dbOk) ==
  /\ inject(IF dbOk THEN 0 ELSE 1)
  /\ inv[i].pc = "commit"
  /\ LET kind == inv[i].kind
         u == inv[i].user
     IN /\ IF dbOk
           THEN writeLedger(kind, u, [ledgerRow(kind, u) EXCEPT
                                        !.current_usage = committedUsage(inv[i].sub)])
           ELSE UNCHANGED ledgerVars
        /\ inv' = [inv EXCEPT ![i] = IF dbOk THEN respond([@ EXCEPT !.charged = TRUE], 200, "none")
                                  ELSE respond(@, 500, "UsageUpdate")]
  /\ UNCHANGED <<clockVars, poolVars, video_generation_tasks, upstream, reverts, keyManager, client, keyLoader, payments>>

\* "ONLY deduct usage AFTER successful API call": write the incremented
\* usage; a failed write is logged and the request still answers success
Gen_Commit(i, dbOk) ==
  /\ inject(IF dbOk THEN 0 ELSE 1)
  /\ inv[i].pc = "commit"
  /\ LET kind == inv[i].kind
         u == inv[i].user
     IN /\ IF dbOk
           THEN writeLedger(kind, u, [ledgerRow(kind, u) EXCEPT
                                        !.current_usage = committedUsage(inv[i].sub)])
           ELSE UNCHANGED ledgerVars
        /\ inv' = [inv EXCEPT ![i] = respond([@ EXCEPT !.charged = dbOk], 200, "none")]
  /\ UNCHANGED <<clockVars, poolVars, video_generation_tasks, upstream, reverts, keyManager, client, keyLoader, payments>>

\* generate-video: the single upstream call settles (no key pool)
GenVideo_Settle(i, outcome, body) ==
  /\ inject(faultsOf(outcome, body))
  /\ inv[i].pc = "fetch" /\ inv[i].kind = "genVideo"
  /\ LET rec == logCall(inv[i], outcome)
     IN /\ upstream' = IF outcome = "ok" /\ body = "task"
                        THEN [upstream EXCEPT ![i] = "created"]
                        ELSE upstream
        /\ inv' = [inv EXCEPT ![i] =
             CASE outcome # "ok" ->
                    respond(rec, 500, IF outcome = "neterr" THEN "neterr"
                                      ELSE "WavespeedError")
               [] body = "unreadable" -> respond(rec, 500, "unreadable")
               [] ~hasTaskId(body) -> respond(rec, 400, "NoTaskId")
               [] OTHER ->
                    [rec EXCEPT !.pc = "insert_task",
                                !.taskId = IF body = "task" THEN i ELSE 0,
                                !.observed = "created"]]
  /\ UNCHANGED <<clockVars, poolVars, ledgerVars, video_generation_tasks,
                 reverts, keyManager, client, keyLoader, payments>>

\* generate-video: store the task row; a failed insert is only logged
GenVideo_InsertTask(i, dbOk) ==
  /\ inject(IF dbOk THEN 0 ELSE 1)
  /\ inv[i].pc = "insert_task"
  /\ video_generation_tasks' =
       IF dbOk /\ inv[i].taskId \in Inv
       THEN [video_generation_tasks EXCEPT ![inv[i].taskId] =
               [exists |-> TRUE, user_id |-> inv[i].user,
                status |-> inv[i].observed]]
       ELSE video_generation_tasks
  /\ inv' = [inv EXCEPT ![i] = [@ EXCEPT !.pc = "commit", !.observed = "none"]]
  /\ UNCHANGED <<clockVars, poolVars, ledgerVars, upstream, reverts, keyManager, client, keyLoader, payments>>

\* ------------------------------------------------------------ status polls
\* mutant: every terminal status counts as a failure
isFailedStatus_terminal(status) == status \in TerminalStatuses

isFailedStatus(status) == status = "failed"

\* after the status is known (and, for video, stored): revert on failure
afterStatus(rec) ==
  IF isFailedStatus(rec.observed)
  THEN [rec EXCEPT !.pc = "revert_read", !.attempt = 0, !.key = 0,
                   !.lastError = "none"]
  ELSE respond(rec, 200, "none")

\* check-generation: a client polls music task t; the dispatch starts
ChkMusic_Request(i, u, t) ==
  /\ MayStart(i)
  /\ inv[t].kind = "genMusic" /\ upstream[t] # "none"
  /\ LET rec == [idleInvocation EXCEPT !.kind = "chkMusic", !.user = u,
                                       !.task = t]
         r == loopTop("chk", keyStats["chk"], 0, "none")
     IN /\ inv' = [inv EXCEPT ![i] = applyDispatch(rec, r)]
        /\ keyStats' = [keyStats EXCEPT !["chk"] = r.stats]
  /\ UNCHANGED <<envVars, apiKeys, maxRequestsPerHour, nextHourlyReset,
                 ledgerVars, video_generation_tasks, upstream, reverts, keyManager, client, keyLoader, payments>>

\* check-generation: the upstream call of the current attempt settles
ChkMusic_Settle(i, outcome) ==
  /\ inject(faultsOf(outcome, "task"))
  /\ inv[i].pc = "fetch" /\ inv[i].kind = "chkMusic"
  /\ LET rec == logCall(inv[i], outcome)
         r == afterFetch("chk", keyStats["chk"], rec.attempt, rec.key,
                         outcome, rec.lastError)
     IN /\ keyStats' = [keyStats EXCEPT !["chk"] = r.stats]
        /\ inv' = [inv EXCEPT ![i] =
                     IF r.pc # "returned"
                     THEN applyDispatch(rec, r)
                     ELSE afterStatus([rec EXCEPT !.observed = upstream[rec.task]])]
  /\ UNCHANGED <<clockVars, apiKeys, maxRequestsPerHour, nextHourlyReset,
                 ledgerVars, video_generation_tasks, upstream, reverts, keyManager, client, keyLoader, payments>>

\* check-video-status: a client polls video task t; one fetch, no key pool
ChkVideo_Request(i, u, t) ==
  /\ MayStart(i)
  /\ inv[t].kind = "genVideo" /\ upstream[t] # "none"
  /\ inv' = [inv EXCEPT ![i] =
               [idleInvocation EXCEPT !.kind = "chkVideo", !.user = u,
                                      !.task = t, !.pc = "fetch"]]
  /\ UNCHANGED <<envVars, poolVars, ledgerVars, video_generation_tasks,
                 upstream, reverts, keyManager, client, keyLoader, payments>>

ChkVideo_Settle(i, outcome) ==
  /\ inject(faultsOf(outcome, "task"))
  /\ inv[i].pc = "fetch" /\ inv[i].kind = "chkVideo"
  /\ LET rec == logCall(inv[i], outcome)
     IN inv' = [inv EXCEPT ![i] =
                  IF outcome # "ok"
                  THEN respond(rec, 500, IF outcome = "neterr" THEN "neterr"
                                         ELSE "WavespeedError")
                  ELSE [rec EXCEPT !.pc = "update_task",
                                   !.observed = upstream[rec.task]]]
  /\ UNCHANGED <<clockVars, poolVars, ledgerVars, video_generation_tasks,
                 upstream, reverts, keyManager, client, keyLoader, payments>>

\* check-video-status: store the observed status on the caller's task row
ChkVideo_UpdateTask(i, dbOk) ==
  /\ inject(IF dbOk THEN 0 ELSE 1)
  /\ inv[i].pc = "update_task"
  /\ LET t == inv[i].task
         row == video_generation_tasks[t]
     IN video_generation_tasks' =
          IF dbOk /\ row.exists /\ row.user_id = inv[i].user
          THEN [video_generation_tasks EXCEPT ![t].status = inv[i].observed]
          ELSE video_generation_tasks
  /\ inv' = [inv EXCEPT ![i] = afterStatus(@)]
  /\ UNCHANGED <<clockVars, poolVars, ledgerVars, upstream, reverts, keyManager, client, keyLoader, payments>>

\* mutant: the revert does not look at the usage it is about to lower
mayRevert_noFloor(row) == row.exists

\* "if (currentSub && currentSub.current_usage > 0)"
mayRevert(row) == row.exists /\ row.current_usage > 0

\* revert, first half: read the caller's current_usage
Revert_Read(i, dbOk) ==
  /\ inject(IF dbOk THEN 0 ELSE 1)
  /\ inv[i].pc = "revert_read"
  /\ LET row == ledgerRow(inv[i].kind, inv[i].user)
     IN inv' = [inv EXCEPT ![i] =
                  IF dbOk /\ mayRevert(row)
                  THEN [@ EXCEPT !.pc = "revert_write",
                                 !.sub = [monthly_limit |-> row.monthly_limit,
                                          current_usage |-> row.current_usage]]
                  ELSE respond(@, 200, "none")]
  /\ UNCHANGED <<clockVars, poolVars, ledgerVars, video_generation_tasks,
                 upstream, reverts, keyManager, client, keyLoader, payments>>

\* mutant: the revert writes back the usage it read
revertedUsage_same(snapshot) == snapshot.current_usage

\* the usage the revert writes: the value it read, minus one
revertedUsage(snapshot) == snapshot.current_usage - 1

\* mutant: a failed revert write is raised and the poll answers 500
Revert_Write_raises(i, dbOk) ==
  /\ inject(IF dbOk THEN 0 ELSE 1)
  /\ inv[i].pc = "revert_write"
  /\ LET kind == inv[i].kind
         u == inv[i].user
         t == inv[i].task
     IN /\ IF dbOk
           THEN writeLedger(kind, u, [ledgerRow(kind, u) EXCEPT
                                        !.current_usage = revertedUsage(inv[i].sub)])
           ELSE UNCHANGED ledgerVars
        /\ reverts' =
             IF /\ dbOk
                /\ inv[t].user = u
                /\ revertedUsage(inv[i].sub) < ledgerRow(kind, u).current_usage
             THEN [reverts EXCEPT ![t] = @ + 1]
             ELSE reverts
  /\ inv' = [inv EXCEPT ![i] = IF dbOk THEN respond(@, 200, "none")
                                ELSE respond(@, 500, "RevertFailed")]
  /\ UNCHANGED <<clockVars, poolVars, video_generation_tasks, upstream,
                 keyManager, client, keyLoader, payments>>

\* revert, second half: write the decremented usage; errors are only logged.
\* reverts[t] counts the writes that lowered the usage of the user who
\* started task t
Revert_Write(i, dbOk) ==
  /\ inject(IF dbOk THEN 0 ELSE 1)
  /\ inv[i].pc = "revert_write"
  /\ LET kind == inv[i].kind
         u == inv[i].user
         t == inv[i].task
     IN /\ IF dbOk
           THEN writeLedger(kind, u, [ledgerRow(kind, u) EXCEPT
                                        !.current_usage = revertedUsage(inv[i].sub)])
           ELSE UNCHANGED ledgerVars
        /\ reverts' =
             IF /\ dbOk
                /\ inv[t].user = u
                /\ revertedUsage(inv[i].sub) < ledgerRow(kind, u).current_usage
             THEN [reverts EXCEPT ![t] = @ + 1]
             ELSE reverts
  /\ inv' = [inv EXCEPT ![i] = respond(@, 200, "none")]
  /\ UNCHANGED <<clockVars, poolVars, video_generation_tasks, upstream,
                 keyManager, client, keyLoader, payments>>

\* ----------------------------------------------------------- get-user-usage
\* "if (now >= resetDate)"
resetDue(asOf, row) == dateGE(asOf, row.reset_date)

\* get-user-usage: load the caller's subscription row, then take the time
GetUsage_Request(i, u, dbOk) ==
  /\ inject(IF dbOk THEN 0 ELSE 1)
  /\ MayStart(i)
  /\ LET rec == [idleInvocation EXCEPT !.kind = "getUsage", !.user = u,
                                       !.asOf = nowDate]
         row == user_subscriptions[u]
     IN inv' = [inv EXCEPT ![i] =
                  IF ~dbOk THEN respond(rec, 500, "Database")
                  ELSE IF ~row.exists THEN [rec EXCEPT !.pc = "usage_create"]
                  ELSE IF resetDue(rec.asOf, row)
                  THEN [rec EXCEPT !.pc = "usage_reset"]
                  ELSE respond(rec, 200, "none")]
  /\ UNCHANGED <<clockVars, poolVars, ledgerVars, video_generation_tasks,
                 upstream, reverts, keyManager, client, keyLoader, payments>>

\* get-user-usage: no row was found, insert the default one and answer
GetUsage_Create(i, dbOk) ==
  /\ inject(IF dbOk THEN 0 ELSE 1)
  /\ inv[i].pc = "usage_create"
  /\ LET u == inv[i].user
     IN IF ~dbOk \/ user_subscriptions[u].exists
        THEN /\ inv' = [inv EXCEPT ![i] = respond(@, 500, "SubscriptionCreate")]
             /\ UNCHANGED ledgerVars
        ELSE /\ writeLedger("getUsage", u, defaultRow("getUsage"))
             /\ inv' = [inv EXCEPT ![i] = respond(@, 200, "none")]
  /\ UNCHANGED <<clockVars, poolVars, video_generation_tasks, upstream,
                 reverts, keyManager, client, keyLoader, payments>>

\* get-user-usage: the period is over, write usage 0 and the next reset date
\* in one update
GetUsage_Reset(i, dbOk) ==
  /\ inject(IF dbOk THEN 0 ELSE 1)
  /\ inv[i].pc = "usage_reset"
  /\ LET u == inv[i].user
     IN IF dbOk
        THEN /\ writeLedger("getUsage", u,
                  [user_subscriptions[u] EXCEPT
                     !.current_usage = 0,
                     !.reset_date = firstOfNextMonth(inv[i].asOf)])
             /\ inv' = [inv EXCEPT ![i] = respond(@, 200, "none")]
        ELSE /\ UNCHANGED ledgerVars
             /\ inv' = [inv EXCEPT ![i] = respond(@, 500, "SubscriptionUpdate")]
  /\ UNCHANGED <<clockVars, poolVars, video_generation_tasks, upstream,
                 reverts, keyManager, client, keyLoader, payments>>

\* ------------------------------------------------------- MultiKeyManager
\* the key manager of the second generate-music function: keyManager holds
\* its keyUsage map and the makeRequest call in progress
resetInterval == 60 * 60 * 1000
keyRotationDelay == 1000
MultiKeyManager_blockDuration == 5 * 60 * 1000
maxRequestsPerKey == maxRequestsPerHour
\* s401 stands for 401 and 403, s5xx for every other answer that is not ok;
\* a fetch that fails raises a TimeoutError or another network error
ManagerOutcomes == {"ok", "s429", "s401", "s5xx", "timeout", "neterr"}

initializeKeyUsageTracking(n, t) ==
  [k \in 1..n |-> [count |-> 0, resetTime |-> t + resetInterval,
                   lastUsed |-> 0, isBlocked |-> FALSE]]

idleCall ==
  [pc |-> "idle", key |-> 0, attemptCount |-> 0, lastError |-> "none",
   wakeAt |-> 0, result |-> "none"]

resetExpiredKeys(keyUsage, t) ==
  [k \in DOMAIN keyUsage |->
     LET u == keyUsage[k]
         u1 == IF t >= u.resetTime
               THEN [u EXCEPT !.count = 0, !.resetTime = t + resetInterval,
                              !.isBlocked = FALSE]
               ELSE u
     IN IF u1.isBlocked /\ (t - u1.lastUsed) >= MultiKeyManager_blockDuration
        THEN [u1 EXCEPT !.isBlocked = FALSE]
        ELSE u1]

MultiKeyManager_availableKeys(keyUsage, t) ==
  {k \in DOMAIN keyUsage :
     /\ ~keyUsage[k].isBlocked
     /\ keyUsage[k].count < maxRequestsPerKey
     /\ (t - keyUsage[k].lastUsed) >= keyRotationDelay}

\* selection on the map left by resetExpiredKeys; 0 stands for null
MultiKeyManager_getNextAvailableKey(keyUsage, t) ==
  LET av == MultiKeyManager_availableKeys(keyUsage, t)
  IN IF av = {} THEN 0
     ELSE CHOOSE k \in av :
            \A j \in av \ {k} :
              \/ keyUsage[k].count < keyUsage[j].count
              \/ /\ keyUsage[k].count = keyUsage[j].count
                 /\ keyUsage[k].lastUsed < keyUsage[j].lastUsed
              \/ /\ keyUsage[k].count = keyUsage[j].count
                 /\ keyUsage[k].lastUsed = keyUsage[j].lastUsed
                 /\ k < j

incrementKeyUsage(keyUsage, key, success, t) ==
  [keyUsage EXCEPT ![key] =
     [@ EXCEPT !.count = IF success THEN @ + 1 ELSE @, !.lastUsed = t]]

blockKey(keyUsage, key, t) ==
  [keyUsage EXCEPT ![key] = [@ EXCEPT !.isBlocked = TRUE, !.lastUsed = t]]

\* head of the while loop of makeRequest; maxRetries is the number of keys
MakeRequest_loopTop(keyUsage, call, t) ==
  IF call.attemptCount >= apiKeys
  THEN [keyUsage |-> keyUsage,
        call |-> [idleCall EXCEPT !.result =
                    IF call.lastError = "none" THEN "AllAttemptsFailed"
                    ELSE call.lastError]]
  ELSE LET u == resetExpiredKeys(keyUsage, t)
           k == MultiKeyManager_getNextAvailableKey(u, t)
       IN IF k = 0
          THEN [keyUsage |-> u,
                call |-> [idleCall EXCEPT !.result = "AllKeysBlocked"]]
          ELSE [keyUsage |-> u,
                call |-> [call EXCEPT !.pc = "fetch", !.key = k, !.wakeAt = 0,
                                      !.result = "none"]]

\* the catch block of makeRequest
MakeRequest_catch(keyUsage, call, error, t) ==
  LET u == IF error = "timeout" THEN blockKey(keyUsage, call.key, t)
           ELSE keyUsage
      c == [call EXCEPT !.lastError = error, !.attemptCount = @ + 1]
  IN IF c.attemptCount < apiKeys
     THEN [keyUsage |-> u, call |-> [c EXCEPT !.pc = "wait", !.wakeAt = t + 1000]]
     ELSE MakeRequest_loopTop(u, c, t)

MakeRequest_afterFetch(keyUsage, call, outcome, t) ==
  CASE outcome = "ok" ->
         [keyUsage |-> incrementKeyUsage(keyUsage, call.key, TRUE, t),
          call |-> [idleCall EXCEPT !.result = "returned"]]
    [] outcome \in {"s429", "s401"} ->
         MakeRequest_loopTop(blockKey(keyUsage, call.key, t),
                             [call EXCEPT !.attemptCount = @ + 1], t)
    [] outcome = "s5xx" ->
         MakeRequest_catch(incrementKeyUsage(keyUsage, call.key, FALSE, t),
                           call, "http5xx", t)
    [] OTHER -> MakeRequest_catch(keyUsage, call, outcome, t)

managerFrame ==
  UNCHANGED <<envVars, poolVars, ledgerVars, video_generation_tasks, upstream,
              inv, reverts, client, keyLoader, payments>>

\* the handler calls keyManager.makeRequest
MakeRequest ==
  /\ keyManager.call.pc = "idle"
  /\ keyManager' = MakeRequest_loopTop(keyManager.keyUsage, idleCall, now)
  /\ managerFrame

MakeRequest_Settle(outcome) ==
  /\ keyManager.call.pc = "fetch"
  /\ keyManager' = MakeRequest_afterFetch(keyManager.keyUsage, keyManager.call,
                                          outcome, now)
  /\ managerFrame

MakeRequest_Wake ==
  /\ keyManager.call.pc = "wait"
  /\ now >= keyManager.call.wakeAt
  /\ keyManager' = MakeRequest_loopTop(keyManager.keyUsage, keyManager.call, now)
  /\ managerFrame

\* ------------------------------------------------------------ environment
\* the clock passes the first instant of the next month
MonthTurns ==
  /\ month < MaxMonths
  /\ month' = month + 1
  /\ now' = now + 1
  /\ UNCHANGED <<ticks, faultsLeft, poolVars, ledgerVars,
                 video_generation_tasks, upstream, inv, reverts, keyManager, client, keyLoader, payments>>


\* the upstream provider finishes a task.  "created" stands for both
\* non-terminal statuses (created, processing), which no handler tells apart
Upstream_Progress(t, s) ==
  /\ upstream[t] = "created"
  /\ s \in TerminalStatuses
  /\ upstream' = [upstream EXCEPT ![t] = s]
  /\ UNCHANGED <<envVars, poolVars, ledgerVars, video_generation_tasks,
                 inv, reverts, keyManager, client, keyLoader, payments>>

Tick(d) ==
  /\ ticks < MaxTicks
  /\ now' = now + d
  /\ ticks' = ticks + 1
  /\ UNCHANGED <<month, faultsLeft, poolVars, ledgerVars, video_generation_tasks, upstream, inv,
                 reverts, keyManager, client, keyLoader, payments>>

\* the setInterval callback of generate-music's key manager
HourlyReset ==
  /\ now >= nextHourlyReset
  /\ keyStats' = [keyStats EXCEPT !["gen"] =
                    [k \in DOMAIN @ |-> [@[k] EXCEPT !.usage = 0]]]
  /\ nextHourlyReset' = nextHourlyReset + hourlyResetInterval
  /\ UNCHANGED <<envVars, apiKeys, maxRequestsPerHour, ledgerVars,
                 video_generation_tasks, upstream, inv, reverts, keyManager, client, keyLoader, payments>>

\* while a catch block sleeps, its timer runs
Sleeping(i) == inv[i].pc = "wait" /\ now < inv[i].wakeAt

\* the timer of a sleeping catch block fires: the sleep has lasted its time
SleepOver(i) ==
  /\ Sleeping(i)
  /\ now' = inv[i].wakeAt
  /\ UNCHANGED <<month, ticks, faultsLeft, poolVars, ledgerVars,
                 video_generation_tasks, upstream, inv, reverts, keyManager, client, keyLoader, payments>>

\* ------------------------------------- check-generation's MultiKeyManager
\* the older key manager of check-generation: per key a count, a resetTime
\* and lastUsed, a round-robin cursor, and no blocking of a key that failed
maxRetries == 3

StatusManager_idleCall ==
  [pc |-> "idle", attempt |-> 0, key |-> 0, calls |-> <<>>, wakeAt |-> 0]

\* getNextAvailableKey: counters whose resetTime has passed start again; the
\* first key from the cursor on that is under the limit and has rested for
\* keyRotationDelay; otherwise the first key with the lowest count
StatusManager_getNextAvailableKey(keyUsage, cur, t) ==
  LET n == Len(keyUsage)
      usage == [k \in 1..n |->
                  IF t >= keyUsage[k].resetTime
                  THEN [count |-> 0, resetTime |-> t + resetInterval,
                        lastUsed |-> keyUsage[k].lastUsed]
                  ELSE keyUsage[k]]
      at(i) == ((cur - 1 + i) % n) + 1
      fits(k) == /\ usage[k].count < maxRequestsPerKey
                 /\ t - usage[k].lastUsed >= keyRotationDelay
      hits == {i \in 0..(n - 1) : fits(at(i))}
      lowest == CHOOSE k \in 1..n :
                  /\ \A j \in 1..n : usage[k].count <= usage[j].count
                  /\ \A j \in 1..(k - 1) : usage[j].count > usage[k].count
  IN [keyUsage |-> usage,
      index |-> IF hits # {}
                THEN at(CHOOSE i \in hits : \A j \in hits : i <= j)
                ELSE lowest]

\* the head of one pass of makeRequest's loop at time t: select a key and
\* start the fetch with it
StatusManager_loopTop(m, attempt, t) ==
  LET r == StatusManager_getNextAvailableKey(m.keyUsage, m.currentKeyIndex, t)
  IN [keyUsage |-> r.keyUsage, currentKeyIndex |-> r.index, served |-> m.served,
      call |-> [m.call EXCEPT !.pc = "fetch", !.attempt = attempt,
                              !.key = r.index, !.wakeAt = 0]]

\* a status check calls keyManager.makeRequest (one call at a time here,
\* MaxDispatches calls in a run)
StatusManager_MakeRequest ==
  /\ keyManager.call.pc \in {"idle", "returned", "failed"}
  /\ keyManager.served < MaxDispatches
  /\ keyManager' = StatusManager_loopTop(
                     [keyManager EXCEPT !.call = StatusManager_idleCall,
                                        !.served = @ + 1], 0, now)
  /\ UNCHANGED <<envVars, poolVars, ledgerVars, video_generation_tasks,
                 upstream, inv, reverts, client, keyLoader, payments>>

\* the fetch settles: a fetch that threw goes to the catch block; an answer
\* is counted on its key, then 429 fills the key's count and continues, any
\* other non-ok status throws into the catch block, 2xx returns
StatusManager_Settle(outcome) ==
  /\ keyManager.call.pc = "fetch"
  /\ LET c == [keyManager.call EXCEPT !.calls = Append(@, keyManager.call.key)]
         k == c.key
         counted == [keyManager.keyUsage EXCEPT ![k].count = @ + 1,
                                                ![k].lastUsed = now]
         caught(usage) ==
           [keyManager EXCEPT
              !.keyUsage = usage,
              !.call = IF c.attempt = maxRetries - 1
                       THEN [c EXCEPT !.pc = "failed"]
                       ELSE [c EXCEPT !.pc = "wait",
                                      !.wakeAt = now + 1000 * (c.attempt + 1)]]
     IN keyManager' =
          CASE outcome = "neterr" -> caught(keyManager.keyUsage)
            [] outcome = "s429" ->
                 LET m == [keyManager EXCEPT
                             !.keyUsage = [counted EXCEPT ![k].count = maxRequestsPerKey],
                             !.call = c]
                 IN IF c.attempt + 1 < maxRetries
                    THEN StatusManager_loopTop(m, c.attempt + 1, now)
                    ELSE [m EXCEPT !.call.pc = "failed"]
            [] outcome = "ok" ->
                 [keyManager EXCEPT !.keyUsage = counted,
                                    !.call = [c EXCEPT !.pc = "returned"]]
            [] OTHER -> caught(counted)
  /\ UNCHANGED <<envVars, poolVars, ledgerVars, video_generation_tasks,
                 upstream, inv, reverts, client, keyLoader, payments>>

\* the timer of the catch block fires: the next pass of the loop
StatusManager_Wake ==
  /\ keyManager.call.pc = "wait"
  /\ now' = keyManager.call.wakeAt
  /\ keyManager' = StatusManager_loopTop(keyManager, keyManager.call.attempt + 1,
                                         keyManager.call.wakeAt)
  /\ UNCHANGED <<month, ticks, faultsLeft, poolVars, ledgerVars,
                 video_generation_tasks, upstream, inv, reverts, client, keyLoader, payments>>

\* ------------------------------------------------- approve_payment_order
\* one payment order of one user and the calls of approve_payment_order on
\* it (each call is a transaction of its own, READ COMMITTED): order is the
\* payment_orders row, transactions counts the payment_transactions rows of
\* the order, calls holds each call's position and the status it selected
PackageGenerations == 2
Callers == {"a1", "a2"}
OrderStatuses == {"pending", "paid", "approved", "rejected"}

noPayments ==
  [order |-> "none", transactions |-> 0,
   calls |-> [c \in Callers |-> [pc |-> "idle", before |-> "none"]]]

\* "SELECT * INTO order_record ... WHERE id = order_id_param AND status =
\* 'paid'; IF NOT FOUND THEN RETURN error": a plain read, it takes no lock
approve_payment_order_Select(c) ==
  /\ payments.order # "none"
  /\ payments.calls[c].pc \in {"idle", "returned_ok", "returned_error"}
  /\ payments' = [payments EXCEPT
       !.calls[c] = IF payments.order = "paid"
                    THEN [pc |-> "update", before |-> "none"]
                    ELSE [pc |-> "returned_error", before |-> "none"]]
  /\ UNCHANGED <<envVars, poolVars, ledgerVars, video_generation_tasks,
                 upstream, inv, reverts, keyManager, client, keyLoader>>

\* "UPDATE payment_orders SET status = 'approved' ... WHERE id =
\* order_id_param": waits for the row lock of a call that has updated and
\* not yet returned, then writes whatever the status has become
approve_payment_order_Update(c) ==
  /\ payments.calls[c].pc = "update"
  /\ \A d \in Callers \ {c} : payments.calls[d].pc # "credit"
  /\ payments' = [payments EXCEPT
       !.order = "approved",
       !.calls[c] = [pc |-> "credit", before |-> payments.order]]
  /\ UNCHANGED <<envVars, poolVars, ledgerVars, video_generation_tasks,
                 upstream, inv, reverts, keyManager, client, keyLoader>>

\* the upsert of user_subscriptions, the payment_transactions row and the
\* return; when a statement of the block fails, EXCEPTION WHEN OTHERS undoes
\* the block's writes and returns the error
approve_payment_order_Credit(c, u, dbOk) ==
  /\ payments.calls[c].pc = "credit"
  /\ IF dbOk
     THEN /\ user_subscriptions' = [user_subscriptions EXCEPT ![u] =
               IF @.exists
               THEN [@ EXCEPT !.monthly_limit = @ + PackageGenerations]
               ELSE subscriptionRow(PackageGenerations, 0)]
          /\ payments' = [payments EXCEPT
               !.transactions = @ + 1,
               !.calls[c] = [pc |-> "returned_ok", before |-> "none"]]
     ELSE /\ UNCHANGED user_subscriptions
          /\ payments' = [payments EXCEPT
               !.order = payments.calls[c].before,
               !.calls[c] = [pc |-> "returned_error", before |-> "none"]]
  /\ UNCHANGED <<envVars, poolVars, video_subscriptions, video_generation_tasks,
                 upstream, inv, reverts, keyManager, client, keyLoader>>

\* ------------------------------ generate-music, deduct-before-call version
\* the older handler: it loads (or inserts) the row, passes the gate, writes
\* current_usage + 1, and only then calls the upstream with the single key
DeductFirst_gate(rec, row) ==
  LET rec1 == [rec EXCEPT !.sub = [monthly_limit |-> row.monthly_limit,
                                   current_usage |-> row.current_usage]]
  IN IF quotaExceeded(row) THEN [respond(rec1, 403, "QuotaExceeded") EXCEPT !.sub = rec1.sub]
     ELSE [rec1 EXCEPT !.pc = "deduct"]

DeductFirst_Request(i, u, dbOk) ==
  /\ inject(IF dbOk THEN 0 ELSE 1)
  /\ MayStart(i)
  /\ LET rec == [idleInvocation EXCEPT !.kind = "genMusicEarly", !.user = u]
         row == user_subscriptions[u]
     IN inv' = [inv EXCEPT ![i] =
                  IF ~dbOk THEN respond(rec, 500, "SubscriptionCheck")
                  ELSE IF ~row.exists THEN [rec EXCEPT !.pc = "create_early"]
                  ELSE DeductFirst_gate(rec, row)]
  /\ UNCHANGED <<clockVars, poolVars, ledgerVars, video_generation_tasks,
                 upstream, reverts, keyManager, client, keyLoader, payments>>

\* no row was found: insert the default one, then the gate
DeductFirst_Create(i, dbOk) ==
  /\ inject(IF dbOk THEN 0 ELSE 1)
  /\ inv[i].pc = "create_early"
  /\ LET u == inv[i].user
     IN IF ~dbOk \/ user_subscriptions[u].exists
        THEN /\ inv' = [inv EXCEPT ![i] = respond(@, 500, "SubscriptionCreate")]
             /\ UNCHANGED user_subscriptions
        ELSE /\ user_subscriptions' =
                  [user_subscriptions EXCEPT ![u] = defaultRow("genMusic")]
             /\ inv' = [inv EXCEPT ![i] = DeductFirst_gate(@, defaultRow("genMusic"))]
  /\ UNCHANGED <<clockVars, poolVars, video_subscriptions, video_generation_tasks,
                 upstream, reverts, keyManager, client, keyLoader, payments>>

\* "DEDUCT USAGE BEFORE MAKING THE API CALL": a failed write answers 500
DeductFirst_Deduct(i, dbOk) ==
  /\ inject(IF dbOk THEN 0 ELSE 1)
  /\ inv[i].pc = "deduct"
  /\ LET u == inv[i].user
     IN IF dbOk
        THEN /\ user_subscriptions' = [user_subscriptions EXCEPT
                  ![u].current_usage = committedUsage(inv[i].sub)]
             /\ inv' = [inv EXCEPT ![i] = [@ EXCEPT !.pc = "fetch", !.charged = TRUE]]
        ELSE /\ UNCHANGED user_subscriptions
             /\ inv' = [inv EXCEPT ![i] =
                          [respond(@, 500, "UsageUpdate") EXCEPT !.sub = inv[i].sub]]
  /\ UNCHANGED <<clockVars, poolVars, video_subscriptions, video_generation_tasks,
                 upstream, reverts, keyManager, client, keyLoader, payments>>

\* the fetch settles: a fetch or a json() that throws lands in the outer
\* catch (500); a body with code !== 200 goes on to the revert; a body with
\* code 200 is answered as success with whatever data.taskId holds
DeductFirst_Settle(i, outcome, body) ==
  /\ inject(faultsOf(outcome, body))
  /\ inv[i].pc = "fetch" /\ inv[i].kind = "genMusicEarly"
  /\ LET rec == logCall(inv[i], outcome)
         keep(r) == [r EXCEPT !.sub = inv[i].sub]
     IN /\ upstream' = IF outcome = "ok" /\ body = "task"
                        THEN [upstream EXCEPT ![i] = "created"]
                        ELSE upstream
        /\ inv' = [inv EXCEPT ![i] =
             CASE outcome = "neterr" -> keep(respond(rec, 500, "neterr"))
               [] body = "unreadable" -> keep(respond(rec, 500, "unreadable"))
               [] outcome # "ok" -> [rec EXCEPT !.pc = "restore"]
               [] OTHER ->
                    keep(respond([rec EXCEPT !.taskId = IF body = "task" THEN i ELSE 0],
                                 200, "none"))]
  /\ UNCHANGED <<clockVars, poolVars, ledgerVars, video_generation_tasks,
                 reverts, keyManager, client, keyLoader, payments>>

\* "revert the usage deduction": write back the usage loaded before the
\* gate; the result of this write is not looked at
DeductFirst_Revert(i, dbOk) ==
  /\ inject(IF dbOk THEN 0 ELSE 1)
  /\ inv[i].pc = "restore"
  /\ LET u == inv[i].user
     IN user_subscriptions' =
          IF dbOk
          THEN [user_subscriptions EXCEPT ![u].current_usage = inv[i].sub.current_usage]
          ELSE user_subscriptions
  /\ inv' = [inv EXCEPT ![i] =
               [respond([@ EXCEPT !.charged = ~dbOk], 400, "GenerationFailed")
                  EXCEPT !.sub = inv[i].sub]]
  /\ UNCHANGED <<clockVars, poolVars, video_subscriptions, video_generation_tasks,
                 upstream, reverts, keyManager, client, keyLoader, payments>>

\* ------------------------------------------------------- browser clients
\* the two generator components: each starts one generation and then polls
\* its task with setTimeout until pollForCompletion stops re-arming the timer
Clients == {"music", "video"}

idleClient == [pc |-> "idle", polls |-> 0, remote |-> "none", seen |-> "none"]

\* what one status check hands to pollForCompletion: the hook threw (HTTP
\* error, success false, 30 s abort), or a result with the task's status,
\* whether tracks/outputs came with it, and whether an error text came with it
Thrown == [thrown |-> TRUE, status |-> "none", outputs |-> 0, error |-> FALSE]
Replies(c, remote) ==
  {Thrown} \cup
  {[thrown |-> FALSE, status |-> remote, outputs |-> o, error |-> e] :
     o \in (IF remote = "completed" THEN {0, 1} ELSE {0}),
     e \in (IF remote = "failed"
            THEN (IF c = "video" THEN {TRUE} ELSE BOOLEAN)
            ELSE {FALSE})}

\* the branch pollForCompletion takes on a result: "done", "error" (the catch
\* block), or "waiting" (setTimeout(pollForCompletion, 10000) again)
pollBranch(c, reply) ==
  IF reply.thrown THEN "error"
  ELSE IF reply.status = "completed" /\ reply.outputs > 0 THEN "done"
  ELSE IF c = "music" /\ (reply.status = "failed" \/ reply.error) THEN "error"
  ELSE IF c = "video" /\ reply.status = "failed" THEN "error"
  ELSE "waiting"

\* the user presses generate: the component awaits the generation request
handleGenerate(c) ==
  /\ client[c].pc = "idle"
  /\ client' = [client EXCEPT ![c].pc = "generating"]
  /\ UNCHANGED <<envVars, poolVars, ledgerVars, video_generation_tasks,
                 upstream, inv, reverts, keyManager, keyLoader, payments>>

\* the generation request returns: with a task id the first poll is armed,
\* without one (or when the hook threw) the catch block ends the attempt
generateReturned(c, taskId) ==
  /\ client[c].pc = "generating"
  /\ client' = [client EXCEPT
       ![c] = IF taskId THEN [@ EXCEPT !.pc = "waiting", !.remote = "pending"]
                        ELSE [@ EXCEPT !.pc = "error"]]
  /\ UNCHANGED <<envVars, poolVars, ledgerVars, video_generation_tasks,
                 upstream, inv, reverts, keyManager, keyLoader, payments>>

\* the 10 s timer fires: pollForCompletion issues one status check
pollForCompletion(c) ==
  /\ client[c].pc = "waiting"
  /\ client' = [client EXCEPT ![c].pc = "checking",
                              ![c].polls = Min(@ + 1, MaxPolls)]
  /\ UNCHANGED <<envVars, poolVars, ledgerVars, video_generation_tasks,
                 upstream, inv, reverts, keyManager, keyLoader, payments>>

\* the status check returns and pollForCompletion branches on it
pollReturned(c, reply) ==
  /\ client[c].pc = "checking"
  /\ reply \in Replies(c, client[c].remote)
  /\ client' = [client EXCEPT
       ![c].pc = pollBranch(c, reply),
       ![c].seen = IF reply.thrown THEN "error" ELSE reply.status]
  /\ UNCHANGED <<envVars, poolVars, ledgerVars, video_generation_tasks,
                 upstream, inv, reverts, keyManager, keyLoader, payments>>

\* the generation service finishes the client's task, or never does
Task_Progress(c, s) ==
  /\ client[c].remote = "pending"
  /\ s \in TerminalStatuses
  /\ client' = [client EXCEPT ![c].remote = s]
  /\ UNCHANGED <<envVars, poolVars, ledgerVars, video_generation_tasks,
                 upstream, inv, reverts, keyManager, keyLoader, payments>>

\* ---------------------------------------------------------- key loading
\* the secrets a function instance can find in its environment: an unset
\* name, whitespace, a key of ten characters or fewer, the two placeholder
\* texts, real keys, and a real key with a blank before and after it
SecretValues == {"unset", "   ", "sk-short", "your_api_key_here",
                 "placeholder_key_1", "sk-live-key-A", "sk-live-key-B",
                 " sk-live-key-A "}
HardCodedKey == "4f52e3f37a67bb5aed649a471e9989b9"

\* String.prototype.trim, .length and .includes on these values
trim(v) ==
  CASE v = "   " -> ""
    [] v = " sk-live-key-A " -> "sk-live-key-A"
    [] OTHER -> v
length(v) ==
  CASE v = "   " -> 3
    [] v = "sk-short" -> 8
    [] v = "your_api_key_here" -> 17
    [] v = "placeholder_key_1" -> 17
    [] v = " sk-live-key-A " -> 15
    [] OTHER -> 13
includes(v, part) ==
  \/ part = "your_" /\ v = "your_api_key_here"
  \/ part = "placeholder" /\ v = "placeholder_key_1"
truthy(v) == v # "unset" /\ v # ""

\* the environment of one instance: the numbered secrets MUSIC_AI_API_KEY_1..
\* and the single secret MUSIC_AI_API_KEY
Environments == [numbered : [1..MaxSlots -> SecretValues], legacy : SecretValues]

trimmed(keys) == [j \in 1..Len(keys) |-> trim(keys[j])]

\* generate-music: the test a numbered secret passes, and the loader
acceptsNumbered(key) ==
  /\ truthy(key) /\ truthy(trim(key)) /\ length(key) > 10
  /\ ~includes(key, "your_") /\ ~includes(key, "placeholder")
acceptsSingle(singleKey) ==
  truthy(singleKey) /\ truthy(trim(singleKey)) /\ length(singleKey) > 10
loadApiKeysFromSecrets(env) ==
  LET keys == trimmed(SelectSeq(env.numbered, acceptsNumbered)) IN
  IF Len(keys) > 0 THEN [constructed |-> TRUE, apiKeys |-> keys]
  ELSE IF acceptsSingle(env.legacy)
       THEN [constructed |-> TRUE, apiKeys |-> <<trim(env.legacy)>>]
       ELSE [constructed |-> FALSE, apiKeys |-> <<>>]

\* check-generation: its test for both kinds of secret, and its loader
acceptsFromEnvironment(key) ==
  truthy(key) /\ truthy(trim(key)) /\ key # "your_api_key_here"
loadApiKeysFromEnvironment(env) ==
  LET keys == trimmed(SelectSeq(env.numbered, acceptsFromEnvironment)) IN
  IF Len(keys) > 0 THEN [constructed |-> TRUE, apiKeys |-> keys]
  ELSE IF acceptsFromEnvironment(env.legacy)
       THEN [constructed |-> TRUE, apiKeys |-> <<trim(env.legacy)>>]
       ELSE [constructed |-> TRUE, apiKeys |-> <<HardCodedKey>>]

NotConstructed ==
  [fn |-> "none", env |-> [numbered |-> [j \in 1..MaxSlots |-> "unset"],
                           legacy |-> "unset"],
   constructed |-> FALSE, apiKeys |-> <<>>]

\* an instance of the function boots: the module-level constructor runs
\* once and loads the pool; when it throws, the instance has no key manager and serves nothing
NewManager(fn, env) ==
  /\ keyLoader.fn = "none"
  /\ keyLoader' =
       LET pool == IF fn = "gen" THEN loadApiKeysFromSecrets(env)
                                 ELSE loadApiKeysFromEnvironment(env)
       IN [fn |-> fn, env |-> env, constructed |-> pool.constructed,
           apiKeys |-> pool.apiKeys]
  /\ UNCHANGED <<envVars, poolVars, ledgerVars, video_generation_tasks,
                 upstream, inv, reverts, keyManager, client, payments>>

\* ---------------------------------------------------------- specification
InitProcess ==
  /\ now = StartTime
  /\ month = 1
  /\ ticks = 0
  /\ keyStats = [s \in Svc |-> initializeKeyTracking(apiKeys)]
  /\ nextHourlyReset = StartTime + hourlyResetInterval
  /\ video_generation_tasks = [t \in Inv |-> NoTask]
  /\ upstream = [t \in Inv |-> "none"]
  /\ inv = [i \in Inv |-> idleInvocation]
  /\ reverts = [t \in Inv |-> 0]
  /\ keyManager = [keyUsage |-> initializeKeyUsageTracking(apiKeys, StartTime),
                   call |-> idleCall]
  /\ client = [c \in Clients |-> idleClient]
  /\ keyLoader = NotConstructed
  /\ payments = noPayments

\* the ledgers before the first request of the run: no row yet, or a row
\* with generations left, some of them used by earlier, finished requests
\* (the two tables never interact, so they start alike)
InitLedger ==
  /\ apiKeys = MaxKeys
  /\ maxRequestsPerHour = MaxPerHour
  /\ \E row \in {NoRow} \cup UNION {{subscriptionRow(l, used) : used \in 0..(l - 1)} :
                                       l \in 1..MaxLimit} :
       /\ user_subscriptions = [u \in Users |-> row]
       /\ video_subscriptions = [u \in Users |-> row]
  /\ InitProcess

Init == InitLedger /\ faultsLeft = MaxFaultsConcurrent

InitSerial == InitLedger /\ faultsLeft = MaxFaults

Arrivals ==
  \E i \in Inv, u \in Users :
    \/ \E kind \in GenKinds, dbOk \in BOOLEAN : Gen_Request(i, u, kind, dbOk)
    \/ \E t \in Inv : ChkMusic_Request(i, u, t)
    \/ \E t \in Inv : ChkVideo_Request(i, u, t)

Steps ==
  \/ \E i \in Inv, dbOk \in BOOLEAN :
       \/ Gen_Create(i, dbOk)
       \/ Gen_Commit(i, dbOk)
       \/ GenVideo_InsertTask(i, dbOk)
       \/ ChkVideo_UpdateTask(i, dbOk)
       \/ Revert_Read(i, dbOk)
       \/ Revert_Write(i, dbOk)
  \/ \E i \in Inv, outcome \in Outcomes :
       \/ \E body \in Bodies : GenMusic_Settle(i, outcome, body)
       \/ ChkMusic_Settle(i, outcome)
  \/ \E i \in Inv, outcome \in VideoOutcomes :
       \/ \E body \in Bodies : GenVideo_Settle(i, outcome, body)
       \/ ChkVideo_Settle(i, outcome)
  \/ \E i \in Inv : Dispatch_Wake(i)
  \/ \E t \in Inv, s \in TerminalStatuses :
       Upstream_Progress(t, s)
  \/ \E i \in Inv : Sleeping(i) /\ Tick(retryWait(svcOf(inv[i].kind)))

\* invocations of any number of clients, interleaved at their awaits; the
\* clock moves while a dispatch sleeps
Next == Arrivals \/ Steps

Spec == Init /\ [][Next]_vars

\* one invocation at a time: the next request arrives only after the
\* previous one was answered
NextSerial == (Quiet /\ Arrivals) \/ Steps

SpecSerial == InitSerial /\ [][NextSerial]_vars

\* the key pools over time: music requests and polls, one at a time, of
\* users with enough allowance, while the clock advances freely; the store
\* works, every 2xx answer carries a task id, and no task ends in the run
InitKeys ==
  /\ apiKeys \in 1..MaxKeys
  /\ maxRequestsPerHour \in 1..MaxPerHour
  /\ user_subscriptions = [u \in Users |-> subscriptionRow(MaxInv, 0)]
  /\ video_subscriptions = [u \in Users |-> NoRow]
  /\ InitProcess
  /\ faultsLeft = MaxFaults

KeyArrivals ==
  \E i \in Inv, u \in Users :
    \/ Gen_Request(i, u, "genMusic", TRUE)
    \/ \E t \in Inv : ChkMusic_Request(i, u, t)

KeySteps ==
  \/ \E i \in Inv : Gen_Commit(i, TRUE)
  \/ \E i \in Inv, outcome \in Outcomes :
       \/ GenMusic_Settle(i, outcome, "task")
       \/ ChkMusic_Settle(i, outcome)
  \/ \E i \in Inv : Dispatch_Wake(i)
  \/ \E d \in TickSteps : Tick(d)
  \/ HourlyReset

NextKeys == (Quiet /\ KeyArrivals) \/ KeySteps

SpecKeys == InitKeys /\ [][NextKeys]_vars

\* the monthly period: generate-music and get-user-usage, one request at a
\* time, on rows whose reset_date is the first of the running month (the
\* period is over) or of the next one, while months pass
InitReset ==
  /\ apiKeys = MaxKeys
  /\ maxRequestsPerHour = MaxPerHour
  /\ \E row \in {NoRow} \cup
                 {[subscriptionRow(l, used) EXCEPT !.reset_date = Date(m, 0)] :
                    l \in 1..MaxLimit, used \in 0..MaxLimit, m \in 1..2} :
       /\ row.current_usage <= row.monthly_limit
       /\ user_subscriptions = [u \in Users |-> row]
  /\ video_subscriptions = [u \in Users |-> NoRow]
  /\ InitProcess
  /\ faultsLeft = MaxFaultsConcurrent

ResetArrivals ==
  \E i \in Inv, u \in Users, dbOk \in BOOLEAN :
    \/ Gen_Request(i, u, "genMusic", dbOk)
    \/ GetUsage_Request(i, u, dbOk)

ResetSteps ==
  \/ \E i \in Inv, dbOk \in BOOLEAN :
       \/ Gen_Create(i, dbOk)
       \/ Gen_Commit(i, dbOk)
       \/ GetUsage_Create(i, dbOk)
       \/ GetUsage_Reset(i, dbOk)
  \/ \E i \in Inv, outcome \in Outcomes, body \in Bodies :
       GenMusic_Settle(i, outcome, body)
  \/ \E i \in Inv : Dispatch_Wake(i)
  \/ \E i \in Inv : Sleeping(i) /\ Tick(retryWait(svcOf(inv[i].kind)))
  \/ MonthTurns

NextReset == (Quiet /\ ResetArrivals) \/ ResetSteps

SpecReset == InitReset /\ [][NextReset]_vars

\* the attempts of a dispatch: pools of up to MaxPoolKeys keys, MaxDispatches
\* music requests and polls one at a time, failing upstream calls enough to
\* reach the cap of five; every call in flight settles and every timer fires
InitAttempts ==
  /\ apiKeys \in 1..MaxPoolKeys
  /\ maxRequestsPerHour = MaxPerHour
  /\ user_subscriptions = [u \in Users |-> subscriptionRow(MaxInv, 0)]
  /\ video_subscriptions = [u \in Users |-> NoRow]
  /\ InitProcess
  /\ faultsLeft = MaxPoolKeys - 1

AttemptSteps ==
  \/ \E i \in Inv : Gen_Commit(i, TRUE)
  \/ \E i \in Inv, outcome \in Outcomes :
       \/ GenMusic_Settle(i, outcome, "task")
       \/ ChkMusic_Settle(i, outcome)
  \/ \E i \in Inv : Dispatch_Wake(i)
  \/ \E i \in Inv : SleepOver(i)

AttemptArrivals == inv[MaxDispatches].pc = "idle" /\ KeyArrivals

NextAttempts == (Quiet /\ AttemptArrivals) \/ AttemptSteps

SpecAttempts ==
  InitAttempts /\ [][NextAttempts]_vars /\ WF_vars(AttemptSteps)

\* a poll that has answered is over: its invocation leaves nothing behind
\* but what it wrote to the key pool and the store
Poll_Over(i) ==
  /\ inv[i].pc = "done" /\ inv[i].kind = "chkMusic"
  /\ inv' = [inv EXCEPT ![i] = idleInvocation]
  /\ UNCHANGED <<envVars, poolVars, ledgerVars, video_generation_tasks,
                 upstream, reverts, keyManager, client, keyLoader, payments>>

\* the order of selection in a pool of MaxKeys keys that allows one request
\* more per hour than the pools of SpecKeys, over any number of polls, one
\* at a time, of which MaxFaultsConcurrent upstream calls fail
InitOrder ==
  /\ apiKeys = MaxKeys
  /\ maxRequestsPerHour = MaxPerHour + 1
  /\ user_subscriptions = [u \in Users |-> subscriptionRow(MaxInv, 0)]
  /\ video_subscriptions = [u \in Users |-> NoRow]
  /\ InitProcess
  /\ faultsLeft = MaxFaultsConcurrent

OrderSteps ==
  \/ \E i \in Inv : Gen_Commit(i, TRUE)
  \/ \E i \in Inv, outcome \in Outcomes :
       \/ GenMusic_Settle(i, outcome, "task")
       \/ ChkMusic_Settle(i, outcome)
  \/ \E i \in Inv : Dispatch_Wake(i)
  \/ \E d \in TickSteps : Tick(d)
  \/ Poll_Over(MaxInv)

NextOrder == (Quiet /\ KeyArrivals) \/ OrderSteps

SpecOrder == InitOrder /\ [][NextOrder]_vars

\* the MultiKeyManager alone: calls of makeRequest, one at a time, while the
\* clock advances freely
InitManager ==
  /\ apiKeys \in 1..MaxKeys
  /\ maxRequestsPerHour \in 1..MaxPerHour
  /\ user_subscriptions = [u \in Users |-> subscriptionRow(MaxInv, 0)]
  /\ video_subscriptions = [u \in Users |-> NoRow]
  /\ InitProcess
  /\ faultsLeft = 0

NextManager ==
  \/ MakeRequest
  \/ \E outcome \in ManagerOutcomes : MakeRequest_Settle(outcome)
  \/ MakeRequest_Wake
  \/ \E d \in TickSteps : Tick(d)

SpecManager == InitManager /\ [][NextManager]_vars

\* check-generation's older key manager alone: status checks one after
\* another; the clock moves with the catch block's timer and between calls
InitStatusManager ==
  /\ apiKeys \in 1..MaxKeys
  /\ maxRequestsPerHour \in 1..MaxPerHour
  /\ user_subscriptions = [u \in Users |-> NoRow]
  /\ video_subscriptions = [u \in Users |-> NoRow]
  /\ now = StartTime /\ month = 1 /\ ticks = 0 /\ faultsLeft = 0
  /\ keyStats = [s \in Svc |-> initializeKeyTracking(apiKeys)]
  /\ nextHourlyReset = StartTime + hourlyResetInterval
  /\ video_generation_tasks = [t \in Inv |-> NoTask]
  /\ upstream = [t \in Inv |-> "none"]
  /\ inv = [i \in Inv |-> idleInvocation]
  /\ reverts = [t \in Inv |-> 0]
  /\ client = [c \in Clients |-> idleClient]
  /\ keyLoader = NotConstructed
  /\ payments = noPayments
  /\ keyManager = [keyUsage |-> [k \in 1..apiKeys |->
                                   [count |-> 0,
                                    resetTime |-> StartTime + resetInterval,
                                    lastUsed |-> 0]],
                   currentKeyIndex |-> 1, served |-> 0,
                   call |-> StatusManager_idleCall]

NextStatusManager ==
  \/ StatusManager_MakeRequest
  \/ \E outcome \in Outcomes : StatusManager_Settle(outcome)
  \/ StatusManager_Wake
  \/ keyManager.call.pc \notin {"fetch", "wait"} /\ \E d \in TickSteps : Tick(d)

SpecStatusManager == InitStatusManager /\ [][NextStatusManager]_vars

\* calls of approve_payment_order on one order, interleaved at their
\* statements
InitPayments ==
  /\ apiKeys = 1
  /\ maxRequestsPerHour = 1
  /\ \E row \in {NoRow, subscriptionRow(1, 0), subscriptionRow(1, 1)} :
       user_subscriptions = [u \in Users |-> row]
  /\ video_subscriptions = [u \in Users |-> NoRow]
  /\ now = StartTime /\ month = 1 /\ ticks = 0 /\ faultsLeft = 0
  /\ keyStats = [s \in Svc |-> initializeKeyTracking(apiKeys)]
  /\ nextHourlyReset = StartTime + hourlyResetInterval
  /\ video_generation_tasks = [t \in Inv |-> NoTask]
  /\ upstream = [t \in Inv |-> "none"]
  /\ inv = [i \in Inv |-> idleInvocation]
  /\ reverts = [t \in Inv |-> 0]
  /\ keyManager = [keyUsage |-> initializeKeyUsageTracking(apiKeys, StartTime),
                   call |-> idleCall]
  /\ client = [c \in Clients |-> idleClient]
  /\ keyLoader = NotConstructed
  /\ \E status \in OrderStatuses : payments = [noPayments EXCEPT !.order = status]

NextPayments ==
  \E c \in Callers :
    \/ approve_payment_order_Select(c)
    \/ approve_payment_order_Update(c)
    \/ \E u \in Users, dbOk \in BOOLEAN : approve_payment_order_Credit(c, u, dbOk)

SpecPayments == InitPayments /\ [][NextPayments]_vars

\* the deduct-before-call handler, one request at a time
InitDeduct == InitLedger /\ faultsLeft = MaxFaults

NextDeduct ==
  \/ Quiet /\ \E i \in Inv, u \in Users, dbOk \in BOOLEAN : DeductFirst_Request(i, u, dbOk)
  \/ \E i \in Inv, dbOk \in BOOLEAN :
       \/ DeductFirst_Create(i, dbOk)
       \/ DeductFirst_Deduct(i, dbOk)
       \/ DeductFirst_Revert(i, dbOk)
  \/ \E i \in Inv, outcome \in Outcomes, body \in Bodies :
       DeductFirst_Settle(i, outcome, body)

SpecDeduct == InitDeduct /\ [][NextDeduct]_vars

\* the two browser components alone
InitClient ==
  /\ apiKeys = 1
  /\ maxRequestsPerHour = 1
  /\ user_subscriptions = [u \in Users |-> NoRow]
  /\ video_subscriptions = [u \in Users |-> NoRow]
  /\ InitProcess
  /\ faultsLeft = 0

ClientSteps ==
  \E c \in Clients :
    \/ \E taskId \in BOOLEAN : generateReturned(c, taskId)
    \/ pollForCompletion(c)
    \/ \E reply \in Replies(c, client[c].remote) : pollReturned(c, reply)

NextClient ==
  \/ \E c \in Clients : handleGenerate(c)
  \/ ClientSteps
  \/ \E c \in Clients, s \in TerminalStatuses : Task_Progress(c, s)

SpecClient == InitClient /\ [][NextClient]_vars

\* timers fire and every status check returns or is aborted after 30 s; the
\* generation service owes the client nothing
SpecClientFair == SpecClient /\ WF_vars(ClientSteps)

\* instances booting with any environment
NextLoad == \E fn \in Svc, env \in Environments : NewManager(fn, env)

SpecLoad == InitClient /\ [][NextLoad]_vars

TypeOK ==
  /\ \A i \in Inv : inv[i].pc \in {"idle", "create", "fetch", "wait", "commit",
                                   "insert_task", "update_task", "revert_read",
                                   "revert_write", "usage_create",
                                   "usage_reset", "done"}
  /\ \A u \in Users : user_subscriptions[u].current_usage \in Int

\* ------------------------------------------------------------------ claims
usageOf(kind, u) == ledgerRow(kind, u).current_usage
usedAllOf(kind, u) ==
  ledgerRow(kind, u).exists /\ usageOf(kind, u) = ledgerRow(kind, u).monthly_limit

\* C1: a generation request (music or video) raises the user's current_usage
\* only in its commit step, which it reaches only after the upstream call
\* answered 2xx with a task id; a request without task id never raises it.
C1_ChargedOnlyAfterTaskId ==
  [][\A i \in Inv, k \in GenKinds, u \in Users :
       (/\ inv'[i] # inv[i]
        /\ inv'[i].kind = k /\ inv'[i].user = u
        /\ usageOf(k, u)' > usageOf(k, u))
       => /\ inv[i].pc = "commit"
          /\ inv[i].taskId \in Inv
          /\ upstream[inv[i].taskId] # "none"
          /\ inv[i].calls # <<>>
          /\ inv[i].calls[Len(inv[i].calls)].outcome = "ok"]_vars

C1_Witness ==
  \E i \in Inv :
    /\ inv[i].kind \in GenKinds /\ inv[i].pc = "done"
    /\ inv[i].charged /\ inv[i].taskId = i
    /\ usageOf(inv[i].kind, inv[i].user) = inv[i].sub.current_usage + 1

\* C2: whatever polls are made of a failed task, the usage of the user who
\* started it is lowered at most once on account of that task.
C2_RevertedAtMostOnce == \A t \in Inv : reverts[t] <= 1

\* C3: with one request at a time, current_usage never exceeds monthly_limit.
C3_UsageWithinLimit ==
  \A u \in Users :
    /\ user_subscriptions[u].current_usage <= user_subscriptions[u].monthly_limit
    /\ video_subscriptions[u].current_usage <= video_subscriptions[u].monthly_limit

C3_Witness ==
  \E i \in Inv :
    /\ inv[i].kind \in GenKinds /\ inv[i].pc = "done" /\ inv[i].charged
    /\ usedAllOf(inv[i].kind, inv[i].user)

\* the scenario's user: one generation allowed, none used
freePlan == [monthly_limit |-> 1, current_usage |-> 0]
everyCall(rec, outcome) ==
  /\ rec.calls # <<>>
  /\ \A n \in 1..Len(rec.calls) : rec.calls[n].outcome = outcome

\* C4: a generation request of a user with limit 1 and usage 0, all of whose
\* upstream calls answered 5xx, is answered with an error (status 500) and
\* leaves the usage at 0.
C4_UpstreamErrorNotCharged ==
  [][\A i \in Inv, k \in GenKinds, u \in Users :
       (/\ inv[i].pc # "done" /\ inv'[i].pc = "done"
        /\ inv'[i].kind = k /\ inv'[i].user = u
        /\ inv'[i].sub = freePlan
        /\ everyCall(inv'[i], "s5xx"))
       => /\ inv'[i].status = 500
          /\ ~inv'[i].charged
          /\ usageOf(k, u)' = 0]_vars

C4_Witness ==
  \E i \in Inv :
    /\ inv[i].kind = "genMusic" /\ inv[i].pc = "done"
    /\ inv[i].sub = freePlan
    /\ everyCall(inv[i], "s5xx") /\ Len(inv[i].calls) = 2
    /\ inv[i].status = 500
    /\ usageOf(inv[i].kind, inv[i].user) = 0

\* C5: for a user with limit 1 and usage 0 whose request got a task id, the
\* commit (its write succeeding) leaves the usage at 1; a later poll of that
\* task by its owner that observes the failed status and completes its revert
\* (no store operation failing) leaves the usage at 0.
C5_ChargeThenRevert ==
  [][\A i \in Inv, u \in Users :
       /\ \A k \in GenKinds :
            (/\ inv[i].pc = "commit" /\ inv'[i].pc = "done"
             /\ inv[i].kind = k /\ inv[i].user = u
             /\ inv[i].sub = freePlan
             /\ faultsLeft' = faultsLeft)
            => usageOf(k, u)' = 1
       /\ \A k \in ChkKinds, t \in Inv :
            (/\ inv[i].pc \in {"revert_read", "revert_write"}
             /\ inv'[i].pc = "done"
             /\ inv[i].kind = k /\ inv[i].user = u /\ inv[i].task = t
             /\ inv[t].user = u /\ inv[t].sub = freePlan /\ inv[t].charged
             /\ faultsLeft' = faultsLeft)
            => usageOf(k, u)' = 0]_vars

C5_Witness ==
  \E i \in Inv, t \in Inv :
    /\ inv[t].kind \in GenKinds /\ inv[t].sub = freePlan /\ inv[t].charged
    /\ inv[i].kind \in ChkKinds /\ inv[i].task = t /\ inv[i].pc = "done"
    /\ inv[i].user = inv[t].user
    /\ reverts[t] = 1
    /\ usageOf(inv[t].kind, inv[t].user) = 0

\* C6: however the polls that observe failed tasks interleave, current_usage
\* is never below 0 in either ledger.
C6_UsageNeverNegative ==
  \A u \in Users :
    /\ user_subscriptions[u].current_usage >= 0
    /\ video_subscriptions[u].current_usage >= 0

\* a poll about to write from a usage another poll has lowered meanwhile
C6_Witness ==
  \E i \in Inv :
    /\ inv[i].kind \in ChkKinds /\ inv[i].pc = "revert_write"
    /\ usageOf(inv[i].kind, inv[i].user) = 0
    /\ inv[i].sub.current_usage > 0

\* C7: after an upstream call of a dispatch answered 4xx (not 429), the
\* dispatch makes no further upstream call: the 4xx call is the last one of
\* its invocation and no call is in flight.
C7_NoCallAfterClientError ==
  \A i \in Inv :
    \A n \in 1..Len(inv[i].calls) :
      inv[i].calls[n].outcome = "s4xx"
        => n = Len(inv[i].calls) /\ inv[i].pc # "fetch"

\* C8: in every state of either key pool, the selection made at the current
\* time (after clearing expired blocks) returns a key that is not blocked and
\* whose usage is below maxRequestsPerHour, and returns no key exactly when
\* every key is blocked or at maxRequestsPerHour.
C8_SelectionRespectsBlocks ==
  \A svc \in Svc :
    LET s == unblockExpired(keyStats[svc], now)
        k == getNextAvailableKey(svc, s, now)
    IN /\ k # 0 => /\ k \in 1..apiKeys
                   /\ ~s[k].isBlocked
                   /\ s[k].usage < maxRequestsPerHour
       /\ k = 0 <=> \A j \in 1..apiKeys :
                      s[j].isBlocked \/ s[j].usage >= maxRequestsPerHour

\* a key is still blocked, no key has rested for rotationDelay, and the
\* selection falls back to the least used key that is not blocked
C8_Witness ==
  \E svc \in Svc :
    LET s == unblockExpired(keyStats[svc], now)
    IN /\ \E j \in 1..apiKeys : s[j].isBlocked
       /\ availableKeys(svc, s, now) = {}
       /\ getNextAvailableKey(svc, s, now) # 0

\* C9: with one dispatch at a time on a pool, no key's usage count exceeds
\* maxRequestsPerHour.
C9_KeyUsageWithinMax ==
  \A svc \in Svc :
    \A k \in 1..apiKeys : keyStats[svc][k].usage <= maxRequestsPerHour

\* C10: two keys, maxRequestsPerHour 1, three generate-music dispatches one
\* after another, every upstream call answering 2xx, before the hourly reset
\* has run: the first dispatch calls with key 1 only, the second with key 2
\* only, and the third ends with "No available API keys" without a call.
C10_TwoKeysThreeDispatches ==
  (/\ apiKeys = 2 /\ maxRequestsPerHour = 1
   /\ faultsLeft = MaxFaults
   /\ nextHourlyReset = StartTime + hourlyResetInterval
   /\ \A i \in 1..3 : inv[i].kind \in {"none", "genMusic"})
  => /\ inv[1].pc = "fetch" => inv[1].key = 1
     /\ inv[1].calls \in {<<>>, <<[key |-> 1, outcome |-> "ok"]>>}
     /\ inv[2].pc = "fetch" => inv[2].key = 2
     /\ inv[2].calls \in {<<>>, <<[key |-> 2, outcome |-> "ok"]>>}
     /\ inv[3].pc # "idle"
          => /\ inv[3].pc = "done" /\ inv[3].status = 500
             /\ inv[3].error = "NoAvailableKeys"
             /\ inv[3].calls = <<>>

C10_Witness ==
  /\ apiKeys = 2 /\ maxRequestsPerHour = 1
  /\ faultsLeft = MaxFaults
  /\ nextHourlyReset = StartTime + hourlyResetInterval
  /\ inv[1].kind = "genMusic" /\ inv[1].calls = <<[key |-> 1, outcome |-> "ok"]>>
  /\ inv[2].kind = "genMusic" /\ inv[2].calls = <<[key |-> 2, outcome |-> "ok"]>>
  /\ inv[3].kind = "genMusic" /\ inv[3].pc = "done"
  /\ inv[3].error = "NoAvailableKeys" /\ inv[3].calls = <<>>

\* a key carrying the block of a failure recorded at lastUsed, its usage
\* below the maximum
failureBlocked(svc, k) ==
  LET st == keyStats[svc][k]
  IN /\ st.isBlocked
     /\ st.blockUntil = st.lastUsed + blockDuration(svc)
     /\ st.usage < maxRequestsPerHour

\* the current time and the times around the end of the block of key k
timesAround(svc, k) ==
  {t \in {now, keyStats[svc][k].blockUntil - 1, keyStats[svc][k].blockUntil,
          keyStats[svc][k].blockUntil + 1} : t >= now}

C12_ResetBeforeGate ==
  [][\A i \in Inv, u \in Users :
       (/\ inv[i].pc = "idle" /\ inv'[i].pc # "idle"
        /\ inv'[i].kind = "genMusic" /\ inv'[i].user = u
        /\ user_subscriptions[u].exists
        /\ resetDue(nowDate, user_subscriptions[u])
        /\ faultsLeft' = faultsLeft)
       => /\ inv'[i].status # 403
          /\ user_subscriptions'[u].current_usage = 0
          /\ user_subscriptions'[u].reset_date = firstOfNextMonth(nowDate)]_vars

\* C13: a usage check (get-user-usage) changes the row only when its time is
\* at or after the row's reset_date; it then writes current_usage 0 and the
\* first of the next month, which is later than its time, so the checks that
\* follow before that date change nothing.
C13_ResetOncePerRollover ==
  [][\A i \in Inv, u \in Users :
       (/\ inv'[i] # inv[i]
        /\ inv'[i].kind = "getUsage" /\ inv'[i].user = u
        /\ user_subscriptions[u].exists)
       => LET row == user_subscriptions[u]
              asOf == IF inv[i].pc = "idle" THEN nowDate ELSE inv[i].asOf
          IN /\ ~resetDue(asOf, row) => user_subscriptions'[u] = row
             /\ (inv[i].pc = "usage_reset" /\ faultsLeft' = faultsLeft)
                  => /\ resetDue(asOf, row)
                     /\ user_subscriptions'[u].current_usage = 0
                     /\ user_subscriptions'[u].reset_date = Date(asOf.month + 1, 0)
                     /\ ~dateGE(asOf, user_subscriptions'[u].reset_date)
                     /\ user_subscriptions'[u].monthly_limit = row.monthly_limit]_vars

\* a check reset the row in month 2, a generation was charged, and the next
\* check left the usage alone
C13_Witness ==
  /\ month = 2
  /\ inv[1].kind = "getUsage" /\ inv[1].status = 200
  /\ inv[2].kind = "genMusic" /\ inv[2].charged
  /\ inv[3].kind = "getUsage" /\ inv[3].status = 200
  /\ \A u \in Users :
       /\ user_subscriptions[u].reset_date = Date(3, 0)
       /\ user_subscriptions[u].current_usage = 1

\* the row a generation request takes to the gate in this step: the row it
\* loads on arrival, or the default row it has just inserted
atGate(i, k, u) ==
  /\ inv'[i].kind = k /\ inv'[i].user = u
  /\ faultsLeft' = faultsLeft
  /\ \/ inv[i].pc = "idle" /\ inv'[i].pc # "idle" /\ ledgerRow(k, u).exists
     \/ inv[i].pc = "create" /\ inv'[i].pc # "create" /\ ~ledgerRow(k, u).exists
gateRow(i, k, u) ==
  IF inv[i].pc = "idle" THEN ledgerRow(k, u) ELSE defaultRow(k)

inFlight(i, k, u) ==
  /\ inv[i].kind = k /\ inv[i].user = u
  /\ inv[i].pc \in {"fetch", "wait", "insert_task", "commit"}

\* C15: nothing coordinates two generation requests of one user: while a
\* request that found one generation left is past the gate and has not yet
\* written its usage, a second request of the same user that finds the same
\* row is admitted as well (so both can hold an upstream task before either
\* commits, see the witness).
C15_SecondRequestAdmitted ==
  [][\A i \in Inv, j \in Inv, k \in GenKinds, u \in Users :
       (/\ i # j
        /\ inFlight(i, k, u)
        /\ inv[i].sub.monthly_limit - inv[i].sub.current_usage = 1
        /\ atGate(j, k, u)
        /\ gateRow(j, k, u).monthly_limit = inv[i].sub.monthly_limit
        /\ gateRow(j, k, u).current_usage = inv[i].sub.current_usage)
       => /\ inv'[j].status # 403
          /\ inv'[j].sub = inv[i].sub]_vars

\* both requests passed the gate with one generation left, both hold an
\* upstream task, neither has committed
C15_Witness ==
  \E i \in Inv, j \in Inv :
    /\ i # j
    /\ inv[i].kind \in GenKinds /\ inv[j].kind = inv[i].kind
    /\ inv[j].user = inv[i].user
    /\ inv[i].pc = "commit" /\ inv[j].pc = "commit"
    /\ inv[i].sub = inv[j].sub
    /\ inv[i].sub.monthly_limit - inv[i].sub.current_usage = 1
    /\ inv[i].taskId = i /\ inv[j].taskId = j
    /\ upstream[i] # "none" /\ upstream[j] # "none"
    /\ usageOf(inv[i].kind, inv[i].user) = inv[i].sub.current_usage

\* the invocations that run a dispatch (makeRequestWithRotation)
DispatchKinds == {"genMusic", "chkMusic"}
\* the error a failed upstream call stands for
errorOf(outcome) ==
  CASE outcome = "neterr" -> "neterr"
    [] outcome = "s4xx" -> "http4xx"
    [] outcome = "s5xx" -> "http5xx"
    [] outcome = "s429" -> "http429"
    [] OTHER -> "none"
lastCall(rec) == rec.calls[Len(rec.calls)]

\* C16: a dispatch hands its caller only a 2xx answer; when its last call
\* failed (so every call failed) it raises, and the error raised is the one
\* of that last call.
C16_ReturnsOkOrRaisesLastError ==
  \A i \in Inv :
    (inv[i].kind \in DispatchKinds /\ inv[i].calls # <<>>) =>
      /\ inv[i].pc \in {"commit", "revert_read"}
           => lastCall(inv[i]).outcome = "ok"
      /\ (inv[i].pc = "done" /\ lastCall(inv[i]).outcome # "ok")
           => /\ inv[i].status = 500
              /\ inv[i].error = errorOf(lastCall(inv[i]).outcome)

\* upstream calls a dispatch has made or has in flight
callsIssued(i) == Len(inv[i].calls) + (IF inv[i].pc = "fetch" THEN 1 ELSE 0)
dispatching(i) ==
  inv[i].kind \in DispatchKinds /\ inv[i].pc \in {"fetch", "wait"}

serverFailed(call) == call.outcome \in {"s429", "s5xx"}
\* the dispatch of i ended by raising an error
raised(rec) == rec.pc = "done" /\ rec.status = 500

\* the call of dispatch i that settles in this step answered 429 or 5xx and
\* attempts remain
settlesServerFailure(i) ==
  /\ inv[i].kind \in DispatchKinds /\ inv[i].pc = "fetch"
  /\ Len(inv'[i].calls) = Len(inv[i].calls) + 1
  /\ serverFailed(lastCall(inv'[i]))
  /\ Len(inv'[i].calls) < maxAttempts(svcOf(inv[i].kind))

\* the retry sleep of dispatch i after a 429 or 5xx answer ends in this step
wakesAfterServerFailure(i) ==
  /\ inv[i].kind \in DispatchKinds /\ inv[i].pc = "wait"
  /\ inv'[i].pc # "wait"
  /\ serverFailed(lastCall(inv[i]))

continuesWithOtherKey(i, k) ==
  LET svc == svcOf(inv[i].kind)
  IN /\ inv'[i].pc \in {"fetch", "wait"}
          \/ (raised(inv'[i]) /\ nonBlockedKeys(keyStats'[svc]) = {})
     /\ inv'[i].pc = "fetch" => inv'[i].key # k

\* C18: when an upstream call answers 429 or 5xx and attempts remain, the
\* key it used gets a failure recorded and is blocked, the next attempt uses
\* a different key, and the dispatch ends only when no unblocked key below
\* maximum usage is left.
C18_RetriesWithAnotherKey ==
  /\ [][\A i \in Inv :
          /\ settlesServerFailure(i) =>
               LET svc == svcOf(inv[i].kind)
                   k == inv[i].key
               IN /\ keyStats'[svc][k].failureCount > keyStats[svc][k].failureCount
                  /\ keyStats'[svc][k].isBlocked
                  /\ keyStats'[svc][k].blockUntil > now'
                  /\ continuesWithOtherKey(i, k)
          /\ wakesAfterServerFailure(i) =>
               continuesWithOtherKey(i, lastCall(inv[i]).key)]_vars
  /\ \A i \in Inv :
       (inv[i].kind \in DispatchKinds /\ inv[i].pc = "wait") ~> inv[i].pc # "wait"

\* a 429 or 5xx answer was followed by a call with another key
C18_Witness ==
  \E i \in Inv :
    /\ inv[i].kind \in DispatchKinds
    /\ Len(inv[i].calls) >= 2
    /\ serverFailed(inv[i].calls[1])
    /\ inv[i].calls[2].key # inv[i].calls[1].key
    /\ keyStats[svcOf(inv[i].kind)][inv[i].calls[1].key].isBlocked

\* the keyUsage map as a selection of the MultiKeyManager sees it now
usageNow == resetExpiredKeys(keyManager.keyUsage, now)
usable(keyUsage, k) ==
  ~keyUsage[k].isBlocked /\ keyUsage[k].count < maxRequestsPerKey

\* C19: key selection gives up only the rotation delay: it returns a key
\* past the delay when there is one, else an unblocked key below maximum
\* usage that is inside the delay, and returns no key exactly when every key
\* is blocked or at maximum usage; for MultiKeyRotationManager and for
\* MultiKeyManager.
C19_RelaxesOnlyRotationDelay ==
  /\ \A svc \in Svc :
       LET s == unblockExpired(keyStats[svc], now)
           k == getNextAvailableKey(svc, s, now)
       IN /\ availableKeys(svc, s, now) # {} => k \in availableKeys(svc, s, now)
          /\ availableKeys(svc, s, now) = {} /\ nonBlockedKeys(s) # {}
               => k \in nonBlockedKeys(s)
          /\ k = 0 <=> nonBlockedKeys(s) = {}
  /\ LET k == MultiKeyManager_getNextAvailableKey(usageNow, now)
         ok == {j \in 1..apiKeys : usable(usageNow, j)}
     IN /\ k # 0 => k \in ok
        /\ k = 0 <=> ok = {}

\* the keys a selection on stats s chooses among: those past the rotation
\* delay when there are any, else the unblocked keys below maximum usage
eligibleKeys(svc, s, t) ==
  IF availableKeys(svc, s, t) # {} THEN availableKeys(svc, s, t)
  ELSE nonBlockedKeys(s)

\* C20: the key returned by a selection has the lowest usage count among
\* the eligible keys and, among those of that usage count, the earliest
\* lastUsed.
C20_LowestUsageThenEarliest ==
  \A svc \in Svc :
    LET s == unblockExpired(keyStats[svc], now)
        k == getNextAvailableKey(svc, s, now)
    IN k # 0 =>
         \A j \in eligibleKeys(svc, s, now) :
           \/ s[k].usage < s[j].usage
           \/ s[k].usage = s[j].usage /\ s[k].lastUsed <= s[j].lastUsed

\* what updateKeyStats(key k, success) at the current time does to the pool
\* of svc in every case: one more use of k, stamped now, nothing else touched
countsOneUse(svc, k, success) ==
  LET old == keyStats[svc]
      new == updateKeyStats(svc, old, k, success, now)
  IN /\ new[k].usage = old[k].usage + 1
     /\ new[k].lastUsed = now
     /\ \A j \in 1..apiKeys : j # k => new[j] = old[j]
     /\ (success /\ new[k].usage < maxRequestsPerHour)
          => /\ new[k].isBlocked = old[k].isBlocked
             /\ new[k].blockUntil = old[k].blockUntil

\* C21 as stated: every failure blocks the key until now + blockDuration.
C21_RecordOutcome ==
  \A svc \in Svc : \A k \in 1..apiKeys : \A success \in BOOLEAN :
    /\ countsOneUse(svc, k, success)
    /\ ~success =>
         LET new == updateKeyStats(svc, keyStats[svc], k, FALSE, now)
         IN new[k].isBlocked /\ new[k].blockUntil = now + blockDuration(svc)

\* C21 amended: a failure blocks the key until now + blockDuration unless the
\* use brings the usage count to the maximum, in which case the key is
\* blocked until now + hourlyResetInterval; the rest as stated.
C21_RecordOutcomeBelowMax ==
  \A svc \in Svc : \A k \in 1..apiKeys : \A success \in BOOLEAN :
    /\ countsOneUse(svc, k, success)
    /\ ~success =>
         LET new == updateKeyStats(svc, keyStats[svc], k, FALSE, now)
         IN /\ new[k].isBlocked
            /\ new[k].blockUntil =
                 now + (IF new[k].usage >= maxRequestsPerHour
                        THEN hourlyResetInterval ELSE blockDuration(svc))

\* a failed call has brought a key to the maximum: blocked for an hour
C21_Witness ==
  \E svc \in Svc : \E k \in 1..apiKeys :
    /\ keyStats[svc][k].failureCount > 0
    /\ keyStats[svc][k].usage = maxRequestsPerHour
    /\ keyStats[svc][k].isBlocked
    /\ keyStats[svc][k].blockUntil = keyStats[svc][k].lastUsed + hourlyResetInterval
    /\ \E j \in 1..apiKeys : j # k /\ keyStats[svc][j] = initialStats

\* the hourly timer of the pool of svc is due and has not run yet
resetPending(svc) == svc = "gen" /\ now >= nextHourlyReset
\* the hour that began with the last use of key k is over
windowOver(svc, k) == now >= keyStats[svc][k].lastUsed + hourlyResetInterval
usableNow(svc, k) ==
  k \in nonBlockedKeys(unblockExpired(keyStats[svc], now))

\* C22 restricted to the pool of svc
windowRestores(svc) ==
  \A k \in 1..apiKeys :
    /\ keyStats[svc][k].usage >= maxRequestsPerHour
         => getNextAvailableKey(svc, unblockExpired(keyStats[svc], now), now) # k
    /\ (keyStats[svc][k].lastUsed > 0 /\ windowOver(svc, k) /\ ~resetPending(svc))
         => usableNow(svc, k)

\* C22: a key at maximum usage is not selected, and once the hour after its
\* last use is over (and the hourly timer, where there is one, has run) it is
\* unblocked, below the maximum and selectable again.
C22_WindowRestoresKey == \A svc \in Svc : windowRestores(svc)

\* a step of video poll i, which has observed its task completed
completedPollStep(i) ==
  /\ inv[i].kind = "chkVideo" /\ inv[i].observed = "completed"
  /\ inv'[i] # inv[i]

\* C23: a video status poll that observed completed stores that status on
\* the caller's task row (unless the store fails, which is only logged),
\* answers 200 and leaves both ledgers as they were.
C23_CompletedLeavesLedger ==
  [][\A i \in Inv :
       completedPollStep(i) =>
         LET t == inv[i].task
             row == video_generation_tasks[t]
         IN /\ UNCHANGED ledgerVars
            /\ inv'[i].pc = "done" /\ inv'[i].status = 200
            /\ (row.exists /\ row.user_id = inv[i].user /\ faultsLeft' = faultsLeft)
                 => video_generation_tasks'[t].status = "completed"]_vars

\* a finished poll has stored completed on the task of a charged user
C23_Witness ==
  \E i \in Inv :
    /\ inv[i].kind = "chkVideo" /\ inv[i].pc = "done" /\ inv[i].status = 200
    /\ video_generation_tasks[inv[i].task].status = "completed"
    /\ video_generation_tasks[inv[i].task].user_id = inv[i].user
    /\ inv[inv[i].task].charged
    /\ usageOf("genVideo", inv[i].user) = inv[inv[i].task].sub.current_usage + 1

\* C24: once completed or failed is stored for a task, no later step changes
\* the stored status of that task.
C24_TerminalStatusStays ==
  [][\A t \in Inv :
       video_generation_tasks[t].status \in TerminalStatuses
         => video_generation_tasks'[t].status = video_generation_tasks[t].status]_vars

\* a step of poll i in its revert during which a store operation failed
failedRevertStep(i) ==
  /\ inv[i].kind \in ChkKinds
  /\ inv[i].pc \in {"revert_read", "revert_write"}
  /\ inv'[i] # inv[i]
  /\ faultsLeft' < faultsLeft

\* C25: when the read or the write of the revert fails, the poll that
\* observed the failed task still answers 200 and both ledgers stay as they
\* were.
C25_RevertFailureNotRaised ==
  [][\A i \in Inv :
       failedRevertStep(i) =>
         /\ inv'[i].pc = "done" /\ inv'[i].status = 200
         /\ inv'[i].error = "none"
         /\ UNCHANGED ledgerVars]_vars

\* a charged music generation failed upstream, the only fault of the run hit
\* the revert of the poll that saw it, and the poll answered 200 with the
\* usage still charged
C25_Witness ==
  /\ faultsLeft = MaxFaults - 1
  /\ inv[1].kind = "genMusic" /\ inv[1].pc = "done" /\ inv[1].charged
  /\ inv[1].calls = <<[key |-> 1, outcome |-> "ok"]>>
  /\ upstream[1] = "failed"
  /\ inv[2].kind = "chkMusic" /\ inv[2].task = 1
  /\ inv[2].pc = "done" /\ inv[2].status = 200
  /\ inv[2].calls = <<[key |-> 1, outcome |-> "ok"]>>
  /\ inv[3].pc = "idle"
  /\ reverts[1] = 0
  /\ usageOf("genMusic", inv[1].user) = inv[1].sub.current_usage + 1

issuesCheck(c) == client[c].pc # "checking" /\ client'[c].pc = "checking"
polling(c) == client[c].pc \in {"waiting", "checking"}

\* C26 (first part): a client issues a status check only for a task whose
\* generation request returned a task id, and arms the next check only
\* while the status it saw last was not terminal and no check had failed.
C26_PollsOnlyLiveTask ==
  [][\A c \in Clients :
       issuesCheck(c) =>
         /\ client[c].remote # "none"
         /\ client[c].seen \in {"none", "pending"}]_vars

\* C26: client polling of a task starts only after the generation request
\* returned a task id, repeats while the observed status is non-terminal and
\* ends at a terminal status, a poll error or an attempt bound: polling does
\* not continue without bound, so every client eventually stops polling.
C26_PollingEnds == <>[](\A c \in Clients : ~polling(c))
C26_StillPolling ==
  \E c \in Clients :
    /\ client[c].pc = "waiting" /\ client[c].polls = MaxPolls
    /\ client[c].seen = "pending" /\ client[c].remote = "pending"

creating(i) == inv[i].pc \in {"create", "usage_create"} /\ inv'[i] # inv[i]
turnedAway(rec) == rec.pc = "done" /\ rec.status = 403

\* C27: a user without a quota row gets one on first use, with
\* monthly_limit 1 and current_usage 0 (the inserted plan is the literal
\* 'free'), only that user's music row is written, and the generate-music
\* request that inserted it passes the quota gate; when a row exists by the
\* time of the insert, the row stays as it is.
C27_LazyCreation ==
  [][\A i \in Inv :
       creating(i) =>
         LET u == inv[i].user
             before == ledgerRow(inv[i].kind, u)
             after == ledgerRow(inv[i].kind, u)'
         IN /\ before.exists => after = before
            /\ (~before.exists /\ after.exists /\ isMusic(inv[i].kind)) =>
                 /\ after.monthly_limit = 1 /\ after.current_usage = 0
                 /\ video_subscriptions' = video_subscriptions
                 /\ inv[i].kind = "genMusic" =>
                      /\ ~turnedAway(inv'[i])
                      /\ inv'[i].sub = [monthly_limit |-> 1, current_usage |-> 0]]_vars
C27_Witness ==
  \E i \in Inv, u \in Users :
    /\ inv[i].kind = "genMusic" /\ inv[i].user = u /\ inv[i].pc = "fetch"
    /\ user_subscriptions[u] =
         [subscriptionRow(1, 0) EXCEPT !.reset_date = Date(1, StartTime)]

isPlaceholder(v) == includes(v, "your_") \/ includes(v, "placeholder")
wellFormed(v) == v # "unset" /\ trim(v) # "" /\ ~isPlaceholder(v)
longKey(v) == wellFormed(v) /\ length(v) > 10
\* the pool is the well-formed entries of seq in their order (entries of ten
\* characters or fewer may be left out)
keepsOrder(pool, seq) ==
  pool \in {trimmed(SelectSeq(seq, wellFormed)), trimmed(SelectSeq(seq, longKey))}

\* C28: the loaded pool is the configured numbered keys in their order
\* without the blank and placeholder entries; the single legacy key is used
\* only when no numbered key was accepted; construction fails, and the
\* instance has no pool, when no valid key is configured; the pool never
\* holds a blank or placeholder entry.
C28_KeyLoading ==
  keyLoader.fn # "none" =>
    LET env == keyLoader.env
        pool == keyLoader.apiKeys
    IN /\ \A j \in 1..Len(pool) : pool[j] # "" /\ ~isPlaceholder(pool[j])
       /\ keyLoader.constructed <=> pool # <<>>
       /\ IF \E j \in 1..MaxSlots : longKey(env.numbered[j])
          THEN keepsOrder(pool, env.numbered)
          ELSE IF pool # <<>> /\ keepsOrder(pool, env.numbered) THEN TRUE
          ELSE IF longKey(env.legacy) THEN pool = <<trim(env.legacy)>>
          ELSE IF wellFormed(env.legacy) THEN pool \in {<<>>, <<trim(env.legacy)>>}
          ELSE pool = <<>>

\* C29: under any interleaving of commits and reverts for one user no update
\* is lost, current_usage counts the commits minus the applied reverts: a
\* commit that was written leaves the stored usage one higher than it was, a
\* revert write leaves it one lower (or as it was, when the write failed).
C29_NoLostUpdate ==
  [][\A i \in Inv :
       inv'[i] # inv[i] =>
         LET stored == usageOf(inv[i].kind, inv[i].user)
             written == usageOf(inv[i].kind, inv[i].user)'
         IN /\ inv[i].pc = "commit" =>
                 written = IF inv'[i].charged THEN stored + 1 ELSE stored
            /\ inv[i].pc = "revert_write" => written \in {stored - 1, stored}]_vars

\* the month in which a row's period began: a row reset on rollover carries
\* the first of the following month, a row inserted without reset_date
\* carries the time of its insertion
openedIn(row) ==
  IF row.reset_date.ms = 0 THEN row.reset_date.month - 1 ELSE row.reset_date.month

\* C30: a usage check sets current_usage back to 0 only when a month
\* boundary has been crossed since the row was created or last reset; usage
\* committed in the current period, also on a row that was just inserted
\* with the default reset_date, is not erased by a check in the same period.
C30_ResetOnlyAfterBoundary ==
  [][\A i \in Inv, u \in Users :
       (/\ inv[i].pc = "usage_reset" /\ inv[i].user = u
        /\ user_subscriptions'[u].current_usage < user_subscriptions[u].current_usage)
       => inv[i].asOf.month > openedIn(user_subscriptions[u])]_vars

lowersUsage(i) ==
  /\ inv[i].pc = "revert_write"
  /\ usageOf(inv[i].kind, inv[i].user)' < usageOf(inv[i].kind, inv[i].user)

\* C31: a status poll lowers a user's current_usage only for a failed task
\* that this user started and was charged for, and whose charge has not been
\* reverted before.
C31_RevertsOwnChargedTask ==
  [][\A i \in Inv :
       lowersUsage(i) =>
         LET t == inv[i].task
         IN /\ upstream[t] = "failed"
            /\ inv[t].user = inv[i].user
            /\ inv[t].charged
            /\ reverts[t] = 0]_vars

\* the upstream calls the invocations 1..n have made with key k of pool svc
RECURSIVE callsWith(_, _, _)
callsWith(svc, k, n) ==
  IF n = 0 THEN 0
  ELSE callsWith(svc, k, n - 1) +
       (IF inv[n].kind # "none" /\ svcOf(inv[n].kind) = svc
        THEN Cardinality({j \in 1..Len(inv[n].calls) : inv[n].calls[j].key = k})
        ELSE 0)
noResetYet(svc) == svc = "chk" \/ nextHourlyReset = StartTime + hourlyResetInterval

\* C32: every upstream call of a dispatch is counted exactly once on the key
\* it used: successCount + failureCount of a key is the number of calls made
\* with it, and until the hourly reset runs its usage is the same number.
C32_EachCallCountedOnce ==
  \A svc \in Svc : \A k \in 1..apiKeys :
    LET st == keyStats[svc][k]
    IN /\ st.successCount + st.failureCount = callsWith(svc, k, MaxInv)
       /\ noResetYet(svc) => st.usage = callsWith(svc, k, MaxInv)

\* C33: with dispatches interleaved on the process-wide generate-music pool
\* (each may be suspended between selecting its key and recording the
\* outcome), no key's usage count exceeds maxRequestsPerHour.
C33_UsageWithinMaxInterleaved ==
  \A k \in 1..apiKeys : keyStats["gen"][k].usage <= maxRequestsPerHour

\* C34: within a single dispatch no key is used for more than one upstream
\* call: a key that failed is blocked before the next selection, so every
\* retry goes to a key the dispatch has not tried yet.
C34_NoKeyTwiceInDispatch ==
  /\ \A i \in Inv :
       inv[i].kind \in DispatchKinds =>
         /\ \A a, b \in 1..Len(inv[i].calls) :
              a # b => inv[i].calls[a].key # inv[i].calls[b].key
         /\ inv[i].pc = "fetch" =>
              \A a \in 1..Len(inv[i].calls) : inv[i].calls[a].key # inv[i].key
  /\ "currentKeyIndex" \in DOMAIN keyManager =>
       LET c == keyManager.call
       IN /\ \A a, b \in 1..Len(c.calls) : a # b => c.calls[a] # c.calls[b]
          /\ c.pc = "fetch" => \A a \in 1..Len(c.calls) : c.calls[a] # c.key

\* C35: across any interleaving of approve_payment_order calls on a payment
\* order, the package's generations are added to the user's monthly_limit at
\* most once and the order moves from paid to approved at most once; a call
\* that finds the order in another status than paid returns an error and
\* changes neither the order nor the user's quota.
C35_ApprovedAtMostOnce ==
  /\ [](payments.transactions <= 1)
  /\ [][\A u \in Users :
          user_subscriptions'[u].monthly_limit > user_subscriptions[u].monthly_limit
          => payments.transactions = 0]_vars
  /\ [][\A c \in Callers :
          (payments'.calls[c] # payments.calls[c] /\ payments.order # "paid"
           /\ payments.calls[c].pc # "credit")
          => /\ payments.calls[c].pc # "update"
             /\ payments'.calls[c].pc = "returned_error"
             /\ payments'.order = payments.order
             /\ user_subscriptions' = user_subscriptions]_vars

commitFailed(i) ==
  inv[i].pc = "commit" /\ inv'[i] # inv[i] /\ ~inv'[i].charged

\* C36: when the upstream accepted a generation and returned a task id but
\* the write that increments current_usage fails, the generation request
\* still answers success with that task id and current_usage stays as it was.
C36_CommitFailureStillSucceeds ==
  [][\A i \in Inv :
       commitFailed(i) =>
         /\ inv[i].taskId \in Inv /\ upstream[inv[i].taskId] # "none"
         /\ inv'[i].pc = "done" /\ inv'[i].status = 200 /\ inv'[i].error = "none"
         /\ inv'[i].taskId = inv[i].taskId
         /\ user_subscriptions' = user_subscriptions
         /\ video_subscriptions' = video_subscriptions]_vars
C36_Witness ==
  \E i \in Inv, k \in GenKinds :
    /\ inv[i].kind = k /\ inv[i].pc = "done" /\ inv[i].status = 200
    /\ inv[i].taskId = i /\ ~inv[i].charged
    /\ usageOf(k, inv[i].user) = inv[i].sub.current_usage

endsEarly(i) ==
  /\ inv[i].kind = "genMusicEarly"
  /\ inv[i].pc \in {"fetch", "restore"} /\ inv'[i].pc = "done"
startedGeneration(rec) == rec.status = 200 /\ rec.taskId \in Inv

\* C37: in the generate-music version that deducts usage before calling the
\* upstream, a request that does not end with a started generation (error
\* code, network error, unreadable response, missing task id) leaves
\* current_usage at the value it had before the request.
C37_DeductionRestored ==
  [][\A i \in Inv :
       (endsEarly(i) /\ ~startedGeneration(inv'[i]))
       => user_subscriptions'[inv[i].user].current_usage = inv[i].sub.current_usage]_vars
====
